---- MODULE Spec2Model ----
(***************************************************************************)
(* xsz: parallel btrfs extent accounting.                                  *)
(*                                                                         *)
(* The module models the Collector (CompsizeStat::insert with its seen     *)
(* set) and the pipeline Director / Walkers / Workers / Collector of       *)
(* src/bin/xsz.rs.  SpecAgg is the Collector alone, fed arbitrary          *)
(* messages; Spec is the whole program on a small file system; FairSpec    *)
(* adds the executor's fairness.                                           *)
(***************************************************************************)
EXTENDS Integers, Sequences, FiniteSets, TLC

\* ------------------------------------------------------------------ bounds
\* Largest number of extents and NFile values the Collector of SpecAgg receives.
MaxLen == 3
\* Largest number of extents in one Extent batch of SpecAgg.
MaxBatch == 2
\* Largest value carried by an NFile message of SpecAgg.
MaxNFile == 2
\* Capacity of the Director inbox (bounded(64) in WalkDir::spawn), scaled down.
InboxCap == 1
\* Capacity of the Walker-to-Worker channel (bounded(64) in main), scaled down.
WorkerChanCap == 1
\* Capacity of the Worker-to-Collector channel (bounded(64) in main), scaled down.
CollectorChanCap == 1
\* TaskPak::<File_, _>::SIZE (8 KiB / size_of::<File_>()), scaled down.
FilePakSize == 2
\* TaskPak::<ExtentInfo, _>::SIZE (8 KiB / size_of::<ExtentInfo>()), scaled down.
ExtentPakSize == 2
\* MAX_LOCAL_LEN (4096 / size_of::<Box<Path>>()), scaled down.
MAX_LOCAL_LEN == 2
\* Largest number of elements pushed into the TaskPak of SpecPak.
MaxPush == 4

VARIABLES
    \* ---- Collector
    stat,            \* Collector.stat: the CompsizeStat accumulator
    extent_map,      \* Collector.extent_map: the seen set of disk keys
    cpc,             \* Collector task: "run" or "done"
    rendered,        \* number of times the statistics were written to stdout
    inserted,        \* history (SpecAgg): the extents inserted so far, in order
    nfile_recv,      \* history: the NFile values received so far
    \* ---- configuration and environment of the run
    jobs,            \* config().jobs: the number of Walkers and of Workers
    one_fs,          \* config().one_fs
    failing,         \* the files whose extent iteration meets a failure
    args,            \* the path arguments: [dirs, files]
    noopen,          \* the directories and files whose open fails: [dirs, files]
    \* ---- global error flag
    err,             \* Global.err
    set_err_rets,    \* history: how many set_err calls returned Ok / Err
    stderr,          \* history: the files a Worker printed a diagnostic for
    met,             \* history: the files whose failure a Worker has met
    late_push,       \* history: files with an extent pushed after their failure
    path_diag,       \* history: the directories a Walker printed a diagnostic for
    enumerated,      \* history: how many times each directory was opened and read
    late_start,      \* history: files each Worker started while the flag was set
    late_open,       \* history: directories each Walker opened while the flag was set
    \* ---- Director (WalkDir)
    dpc,             \* "start", "recv", "send", "done"
    walkers,         \* WalkDir.walkers: ids whose channel sender is held
    pending_walkers, \* WalkDir.pending_walkers
    global_joblist,  \* WalkDir.global_joblist.jobs: dev -> [dirs, fd]
    d_send,          \* the WalkerMsg being sent and its target, at "send"
    inbox,           \* the Director's inbox: queue of WalkDirMsg
    closed_idle,     \* history: job_balance found the crawl finished
    \* ---- Walkers
    wpc,             \* "idle", "walk", "open", "files", "send", "done"
    w_chunk,         \* dev and fd of the chunk being handled
    w_dirs,          \* the local deque `dirs`
    w_files,         \* regular files of the current directory not yet consumed
    w_out,           \* messages the Walker still has to send to the Director
    w_pak,           \* the Walker's TaskPak<File_>.inner
    \* ---- the task consuming the path arguments that are files
    ft_files,        \* files not yet consumed
    ft_pak,          \* its TaskPak<File_>.inner
    \* ---- Walker-to-Worker channel
    wchan,           \* queue of Box<[File_]>
    flushW,          \* file batches held by flush tasks of dropped TaskPaks
    \* ---- Workers
    kpc,             \* "idle", "files", "start", "items", "done"
    k_files,         \* files of the batch not yet started
    k_cur,           \* the file being processed
    k_items,         \* items the iterator of the current file has yet to yield
    k_nfile,         \* Worker.nfile
    k_pak,           \* Worker.collector.inner
    started,         \* history: how many times handle_file started each file
    \* ---- Worker-to-Collector channel
    cchan,           \* queue of CollectorMsg
    flushC,          \* messages held by the detached tasks of dropped Workers
    \* ---- process
    exit_code,       \* -1 while running, else the exit code of main
    \* ---- one TaskPak and its downstream channel (SpecPak)
    p_inner,         \* TaskPak.inner
    p_alive,         \* the TaskPak has not been dropped
    p_chan,          \* the downstream channel: queue of batches
    p_flush,         \* the batch held by the flush task of the dropped TaskPak
    p_pushed,        \* history: the elements pushed, in order
    p_recv,          \* history: the batches the receiver took, in order
    r_recs,          \* SpecParse: the raw records the iterator yields for the file
    r_res,           \* history: what decoding and parsing made of each record
    r_pc,            \* handle_file: "idle", "run", "done", "break", "fail", "panic"
    r_out,           \* the ExtentInfo values pushed to self.collector, in order
    r_err,           \* the global error flag
    r_diag,          \* number of lines handle_file printed with eprintln!
    i_pc,            \* SpecIter: "idle", "run", "end" (None), "err", "dropped"
    i_key,           \* self.sv2_args.key, the search key the Worker reuses
    i_pos,           \* Sv2ItemIter.pos, counted in records
    i_nrest,         \* Sv2ItemIter.nrest_item
    i_last,          \* Sv2ItemIter.last
    i_calls,         \* history: the ioctls issued, with what each returned
    i_file,          \* the file iterated: its number of records and their spacing
    i_ino,           \* f.ino() of the file iterated
    i_nfile,         \* Worker.nfile
    i_left,          \* history: the key as the file before left it
    f_pc,            \* SpecFmt: "idle", "run", "done", "panic", "exited"
    f_err,           \* the global error flag when the Collector is dropped
    f_stdout,        \* the lines written to stdout
    f_stderr,        \* the lines written to stderr
    f_exit,          \* -1 while the process runs, else its exit code
    o_pc,            \* SpecCli: main at "idle", "config", "walkdir", "workers",
                     \* "block_on" or "exited"
    o_argv,          \* the command line: [opts, unknown, other]
    o_cfg,           \* config(): [jobs, one_fs, bytes], jobs starting at nthreads()
    o_stderr,        \* the lines written to stderr
    o_exit,          \* -1 while the process runs, else its exit code
    o_made,          \* how many Walkers, Workers and executor threads were created
    x_mpc,           \* SpecExec: where the main thread is in block_on
    x_threads,       \* the worker threads Executor::new created
    x_queue,         \* the executor's channel of Runnables, oldest first
    x_tasks,         \* the spawned tasks: [pc, left, flush]
    x_chan,          \* number of messages in the Collector's channel
    x_senders,       \* number of senders of the Collector's channel
    x_send_wait,     \* tasks suspended in send on the full channel, oldest first
    x_recv_wait,     \* the Collector's recv holds the waker of block_on
    x_q_wait,        \* the recv on the executor's channel holds the waker of block_on
    x_token,         \* the park token of the main thread (set by unpark)
    x_cnt,           \* cnt of block_on
    x_recvd,         \* history: number of messages the Collector has handled
    x_parks,         \* history: number of times park() has returned
    s_pc,            \* SpecShot: "idle", "run", or "aborted" by a panic under replace_with
    s_inner,         \* the Inner of the channel: [tag, val]
    s_sender,        \* the Sender has not been consumed by send
    s_lock,          \* the holder of the Mutex: "free", "send" or "poll"
    s_msg,           \* the message send is called with
    s_waker,         \* the waker of the poll that holds the lock
    s_polls,         \* number of polls of the Receiver so far
    s_rets,          \* history: the values send and poll returned
    s_wakes,         \* history: the wakers put_msg woke
    s_hit,           \* history: the unreachable! branch executed, or "none"
    a_pc,            \* SpecAct: where each run_actor is
    a_own,           \* the Addr each run_actor holds as its argument (0 or 1)
    a_kept,          \* the Addr each actor got from ctx.addr() and keeps
    a_ext,           \* number of Addr clones held outside the actors
    a_queue,         \* the channel of the actors, oldest message first
    a_cur,           \* the message each actor is handling, or 0
    a_sent,          \* number of messages sent so far
    a_handled,       \* history: the messages handled, as [actor, msg]
    a_exits,         \* history: number of runs of on_exit of each actor
    a_none           \* history: ctx.addr() has returned None

colvars == <<stat, extent_map, cpc, rendered>>
pakvars == <<p_inner, p_alive, p_chan, p_flush, p_pushed, p_recv>>
recvars == <<r_recs, r_res, r_pc, r_out, r_err, r_diag>>
itervars == <<i_pc, i_key, i_pos, i_nrest, i_last, i_calls, i_file, i_ino,
              i_nfile, i_left>>
fmtvars == <<f_pc, f_err, f_stdout, f_stderr, f_exit>>
clivars == <<o_pc, o_argv, o_cfg, o_stderr, o_exit, o_made>>
execvars == <<x_mpc, x_threads, x_queue, x_tasks, x_chan, x_senders,
              x_send_wait, x_recv_wait, x_q_wait, x_token, x_cnt, x_recvd,
              x_parks>>
shotvars == <<s_pc, s_inner, s_sender, s_lock, s_msg, s_waker, s_polls,
              s_rets, s_wakes, s_hit>>
actvars == <<a_pc, a_own, a_kept, a_ext, a_queue, a_cur, a_sent, a_handled,
             a_exits, a_none>>
extravars == <<clivars, execvars, shotvars, actvars>>
auxvars == <<pakvars, recvars, itervars, fmtvars, extravars>>
histvars == <<inserted, nfile_recv, auxvars>>
cfgvars == <<jobs, one_fs, failing, args, noopen>>
errvars == <<err, set_err_rets, stderr, met, late_push, path_diag, enumerated,
            late_start, late_open>>
dirvars == <<dpc, walkers, pending_walkers, global_joblist, d_send, closed_idle>>
walkvars == <<wpc, w_chunk, w_dirs, w_files, w_out, w_pak>>
ftvars == <<ft_files, ft_pak>>
wchanvars == <<wchan, flushW>>
workvars == <<kpc, k_files, k_cur, k_items, k_nfile, k_pak, started>>
cchanvars == <<cchan, flushC>>
pipevars == <<cfgvars, errvars, dirvars, inbox, walkvars, ftvars, wchanvars,
              workvars, cchanvars, exit_code, cpc, rendered>>
vars == <<stat, extent_map, histvars, pipevars>>
pakrest == <<stat, extent_map, inserted, nfile_recv, pipevars, recvars,
             itervars, fmtvars,
             extravars>>
recrest == <<stat, extent_map, inserted, nfile_recv, pipevars, pakvars,
             itervars, fmtvars,
             extravars>>
iterrest == <<stat, extent_map, inserted, nfile_recv, pipevars, pakvars,
              recvars, fmtvars,
              extravars>>
fmtrest == <<stat, extent_map, inserted, nfile_recv, pipevars, pakvars,
             recvars, itervars,
             extravars>>
clirest == <<stat, extent_map, inserted, nfile_recv, pipevars, pakvars,
              recvars, itervars, fmtvars, execvars, shotvars, actvars>>
execrest == <<stat, extent_map, inserted, nfile_recv, pipevars, pakvars,
               recvars, itervars, fmtvars, clivars, shotvars, actvars>>
shotrest == <<stat, extent_map, inserted, nfile_recv, pipevars, pakvars,
               recvars, itervars, fmtvars, clivars, execvars, actvars>>
actrest == <<stat, extent_map, inserted, nfile_recv, pipevars, pakvars,
              recvars, itervars, fmtvars, clivars, execvars, shotvars>>

\* The variables of SpecPak when no TaskPak is under study.
NoPak ==
    /\ p_inner = <<>>
    /\ p_alive = FALSE
    /\ p_chan = <<>>
    /\ p_flush = {}
    /\ p_pushed = <<>>
    /\ p_recv = <<>>

\* The variables of SpecParse when no file is under study.
NoRec ==
    /\ r_recs = <<>>
    /\ r_res = <<>>
    /\ r_pc = "idle"
    /\ r_out = <<>>
    /\ r_err = FALSE
    /\ r_diag = 0

\* The variables of SpecIter when no iterator is under study.
NoIter ==
    /\ i_pc = "idle"
    /\ i_key = <<>>
    /\ i_pos = 0
    /\ i_nrest = 0
    /\ i_last = FALSE
    /\ i_calls = <<>>
    /\ i_file = [n |-> 0, gap |-> 1]
    /\ i_ino = 0
    /\ i_nfile = 0
    /\ i_left = <<>>

\* The variables of SpecFmt when no rendering is under study.
NoFmt ==
    /\ f_pc = "idle"
    /\ f_err = FALSE
    /\ f_stdout = <<>>
    /\ f_stderr = <<>>
    /\ f_exit = -1

\* The variables of SpecCli when no start of the process is under study.
NoCli ==
    /\ o_pc = "idle"
    /\ o_argv = <<>>
    /\ o_cfg = <<>>
    /\ o_stderr = <<>>
    /\ o_exit = -1
    /\ o_made = <<>>

\* The variables of SpecExec when no executor is under study.
NoExec ==
    /\ x_mpc = "idle"
    /\ x_threads = 0
    /\ x_queue = <<>>
    /\ x_tasks = <<>>
    /\ x_chan = 0
    /\ x_senders = 0
    /\ x_send_wait = <<>>
    /\ x_recv_wait = FALSE
    /\ x_q_wait = FALSE
    /\ x_token = FALSE
    /\ x_cnt = 0
    /\ x_recvd = 0
    /\ x_parks = 0

\* The variables of SpecShot when no oneshot channel is under study.
NoShot ==
    /\ s_pc = "idle"
    /\ s_inner = <<>>
    /\ s_sender = FALSE
    /\ s_lock = "free"
    /\ s_msg = 0
    /\ s_waker = 0
    /\ s_polls = 0
    /\ s_rets = <<>>
    /\ s_wakes = <<>>
    /\ s_hit = "none"

\* The variables of SpecAct when no actor is under study.
NoAct ==
    /\ a_pc = <<>>
    /\ a_own = <<>>
    /\ a_kept = <<>>
    /\ a_ext = 0
    /\ a_queue = <<>>
    /\ a_cur = <<>>
    /\ a_sent = 0
    /\ a_handled = <<>>
    /\ a_exits = <<>>
    /\ a_none = FALSE

NoExtra == NoCli /\ NoExec /\ NoShot /\ NoAct

NoAux == NoPak /\ NoRec /\ NoIter /\ NoFmt /\ NoExtra

\* ------------------------------------------------------- btrfs.rs data types
Compressions == 0..3
ExtentTypes == {"Inline", "Regular", "Prealloc"}

StatDefault == [disk |-> 0, uncomp |-> 0, refd |-> 0]

CompsizeStatDefault ==
    [nfile |-> 0, ninline |-> 0, nref |-> 0, nextent |-> 0,
     prealloc |-> StatDefault,
     stat |-> [c \in Compressions |-> StatDefault]]

\* The byte triples the modelled extents carry.
StatInputs ==
    {[disk |-> 1, uncomp |-> 2, refd |-> 1],
     [disk |-> 1, uncomp |-> 2, refd |-> 2],
     [disk |-> 2, uncomp |-> 3, refd |-> 1]}

\* The compression classes the modelled extents carry (none and zstd).
CompInputs == {0, 3}

\* The disk keys (disk_bytenr >> 12) the modelled Regular and Prealloc extents carry.
KeyInputs == {1, 2}

\* The ExtentInfo values IoctlSearchItem::parse can build: an Inline extent
\* has disk_bytenr 0, a Regular or Prealloc one a disk_bytenr >> 12 of at
\* least 1.  (objectid and offset are carried by ExtentInfo but never read
\* by the Collector; they are left out.)
ExtentInputs ==
    [type : {"Inline"}, compression : {3}, disk_bytenr : {0},
     stat : StatInputs]
    \cup
    [type : {"Regular"}, compression : CompInputs,
     disk_bytenr : KeyInputs, stat : StatInputs]
    \cup
    [type : {"Prealloc"}, compression : {0},
     disk_bytenr : {2}, stat : StatInputs]

\* ------------------------------------------------- scale.rs CompsizeStat::insert
\* Mutants of insert, each a plausible slip.
\* The seen set is not consulted: disk and uncomp are added on every reference.
insert_nodedup(self, map, extent) ==
    LET comp == extent.compression
        st == extent.stat
    IN  CASE extent.type = "Inline" ->
              [stat |-> [self EXCEPT !.ninline = @ + 1,
                                     !.stat[comp].disk = @ + st.disk,
                                     !.stat[comp].uncomp = @ + st.uncomp,
                                     !.stat[comp].refd = @ + st.refd],
               map |-> map]
          [] extent.type = "Regular" ->
              [stat |-> [self EXCEPT !.nref = @ + 1,
                                     !.nextent = IF extent.disk_bytenr \in map
                                                 THEN @ ELSE @ + 1,
                                     !.stat[comp].disk = @ + st.disk,
                                     !.stat[comp].uncomp = @ + st.uncomp,
                                     !.stat[comp].refd = @ + st.refd],
               map |-> map \cup {extent.disk_bytenr}]
          [] OTHER ->
              [stat |-> [self EXCEPT !.nref = @ + 1,
                                     !.nextent = IF extent.disk_bytenr \in map
                                                 THEN @ ELSE @ + 1,
                                     !.prealloc.disk = @ + st.disk,
                                     !.prealloc.uncomp = @ + st.uncomp,
                                     !.prealloc.refd = @ + st.refd],
               map |-> map \cup {extent.disk_bytenr}]

\* nref is counted only for a new extent (the increment moved inside the if).
insert_nref_in_if(self, map, extent) ==
    LET comp == extent.compression
        st == extent.stat
        new == extent.disk_bytenr \notin map
    IN  CASE extent.type = "Inline" ->
              [stat |-> [self EXCEPT !.ninline = @ + 1,
                                     !.stat[comp].disk = @ + st.disk,
                                     !.stat[comp].uncomp = @ + st.uncomp,
                                     !.stat[comp].refd = @ + st.refd],
               map |-> map]
          [] extent.type = "Regular" ->
              [stat |-> [self EXCEPT !.nref = IF new THEN @ + 1 ELSE @,
                                     !.nextent = IF new THEN @ + 1 ELSE @,
                                     !.stat[comp].disk = IF new THEN @ + st.disk ELSE @,
                                     !.stat[comp].uncomp = IF new THEN @ + st.uncomp ELSE @,
                                     !.stat[comp].refd = @ + st.refd],
               map |-> map \cup {extent.disk_bytenr}]
          [] OTHER ->
              [stat |-> [self EXCEPT !.nref = IF new THEN @ + 1 ELSE @,
                                     !.nextent = IF new THEN @ + 1 ELSE @,
                                     !.prealloc.disk = IF new THEN @ + st.disk ELSE @,
                                     !.prealloc.uncomp = IF new THEN @ + st.uncomp ELSE @,
                                     !.prealloc.refd = @ + st.refd],
               map |-> map \cup {extent.disk_bytenr}]

\* refd is added only for a new extent (the addition moved inside the if).
insert_refd_in_if(self, map, extent) ==
    LET comp == extent.compression
        st == extent.stat
        new == extent.disk_bytenr \notin map
    IN  CASE extent.type = "Inline" ->
              [stat |-> [self EXCEPT !.ninline = @ + 1,
                                     !.stat[comp].disk = @ + st.disk,
                                     !.stat[comp].uncomp = @ + st.uncomp,
                                     !.stat[comp].refd = @ + st.refd],
               map |-> map]
          [] extent.type = "Regular" ->
              [stat |-> [self EXCEPT !.nref = @ + 1,
                                     !.nextent = IF new THEN @ + 1 ELSE @,
                                     !.stat[comp].disk = IF new THEN @ + st.disk ELSE @,
                                     !.stat[comp].uncomp = IF new THEN @ + st.uncomp ELSE @,
                                     !.stat[comp].refd = IF new THEN @ + st.refd ELSE @],
               map |-> map \cup {extent.disk_bytenr}]
          [] OTHER ->
              [stat |-> [self EXCEPT !.nref = @ + 1,
                                     !.nextent = IF new THEN @ + 1 ELSE @,
                                     !.prealloc.disk = IF new THEN @ + st.disk ELSE @,
                                     !.prealloc.uncomp = IF new THEN @ + st.uncomp ELSE @,
                                     !.prealloc.refd = IF new THEN @ + st.refd ELSE @],
               map |-> map \cup {extent.disk_bytenr}]

\* A Prealloc extent is accounted in the bucket of its compression.
insert_prealloc_by_comp(self, map, extent) ==
    LET comp == extent.compression
        st == extent.stat
        new == extent.disk_bytenr \notin map
    IN  CASE extent.type = "Inline" ->
              [stat |-> [self EXCEPT !.ninline = @ + 1,
                                     !.stat[comp].disk = @ + st.disk,
                                     !.stat[comp].uncomp = @ + st.uncomp,
                                     !.stat[comp].refd = @ + st.refd],
               map |-> map]
          [] OTHER ->
              [stat |-> [self EXCEPT !.nref = @ + 1,
                                     !.nextent = IF new THEN @ + 1 ELSE @,
                                     !.stat[comp].disk = IF new THEN @ + st.disk ELSE @,
                                     !.stat[comp].uncomp = IF new THEN @ + st.uncomp ELSE @,
                                     !.stat[comp].refd = @ + st.refd],
               map |-> map \cup {extent.disk_bytenr}]

\* CompsizeStat::insert(&mut self, extent_map, extent): the new accumulator and
\* the new seen set.  extent_map.insert(key) is true iff key was not in the set.
insert(self, map, extent) ==
    LET comp == extent.compression
        st == extent.stat
        new == extent.disk_bytenr \notin map
    IN  CASE extent.type = "Inline" ->
              [stat |-> [self EXCEPT !.ninline = @ + 1,
                                     !.stat[comp].disk = @ + st.disk,
                                     !.stat[comp].uncomp = @ + st.uncomp,
                                     !.stat[comp].refd = @ + st.refd],
               map |-> map]
          [] extent.type = "Regular" ->
              [stat |-> [self EXCEPT !.nref = @ + 1,
                                     !.nextent = IF new THEN @ + 1 ELSE @,
                                     !.stat[comp].disk = IF new THEN @ + st.disk ELSE @,
                                     !.stat[comp].uncomp = IF new THEN @ + st.uncomp ELSE @,
                                     !.stat[comp].refd = @ + st.refd],
               map |-> map \cup {extent.disk_bytenr}]
          [] OTHER ->
              [stat |-> [self EXCEPT !.nref = @ + 1,
                                     !.nextent = IF new THEN @ + 1 ELSE @,
                                     !.prealloc.disk = IF new THEN @ + st.disk ELSE @,
                                     !.prealloc.uncomp = IF new THEN @ + st.uncomp ELSE @,
                                     !.prealloc.refd = @ + st.refd],
               map |-> map \cup {extent.disk_bytenr}]

\* The loop of Collector::handle over an Extent batch: insert, in order.
RECURSIVE insert_all(_, _, _)
insert_all(self, map, extents) ==
    IF extents = <<>> THEN [stat |-> self, map |-> map]
    ELSE LET r == insert(self, map, Head(extents))
         IN  insert_all(r.stat, r.map, Tail(extents))

\* Collector::handle(msg): the accumulator and seen set after the message.
handle(self, map, msg) ==
    IF msg.kind = "Extent" THEN insert_all(self, map, msg.extents)
    ELSE [stat |-> [self EXCEPT !.nfile = @ + msg.n], map |-> map]


\* ============================================================== the pipeline
\* ------------------------------------------------------- the file system
\* The directories and regular files of the modelled runs.  Directory 1 holds
\* file 1 and the directories 2, 3, 4; directory 2 holds file 2; directory 4
\* holds directory 5, a mount point of another device, which holds file 3.
\* File 4 lies outside these trees.  Directory 6 is a separate tree holding
\* the files 5 to 10 and no directory.
Dirs == 1..6
Files == 1..10

\* fs_util::get_dev(path): the device of a directory.
get_dev(d) == <<1, 1, 1, 1, 2, 1>>[d]

\* The entries of a directory that are directories / regular files, in
\* readdir order.
SubDirsOf(d) == << <<2, 3, 4>>, <<>>, <<>>, <<5>>, <<>>, <<>> >>[d]
FilesOf(d) == << <<1>>, <<2>>, <<>>, <<>>, <<3>>, <<5, 6, 7, 8, 9, 10>> >>[d]

\* The path arguments of the modelled runs: directories and regular files.
\* The last run names the empty directory 3 twice.
ArgInputs ==
    {[dirs |-> <<1>>, files |-> <<4>>],
     [dirs |-> <<4>>, files |-> <<>>],
     [dirs |-> <<>>, files |-> <<4>>],
     [dirs |-> <<6>>, files |-> <<>>],
     [dirs |-> <<3, 3>>, files |-> <<>>]}

\* config().jobs of the modelled runs.
JobsInputs == {1, 2}

\* The sets of files whose extent iteration fails, in the modelled runs; a
\* run draws one whose files it can meet.
FailingInputs == {{}, {1}, {5}, {5, 7}}

Range(s) == {s[j] : j \in 1..Len(s)}

RECURSIVE TreeFiles(_)
\* The regular files of the tree rooted at a directory.
TreeFiles(d) ==
    Range(FilesOf(d)) \cup UNION {TreeFiles(s) : s \in Range(SubDirsOf(d))}

\* The regular files given as arguments or lying in the trees given.
AllFiles(a) == Range(a.files) \cup UNION {TreeFiles(d) : d \in Range(a.dirs)}

RECURSIVE TreeDirs(_)
\* The directories of the tree rooted at a directory.
TreeDirs(d) == {d} \cup UNION {TreeDirs(s) : s \in Range(SubDirsOf(d))}

ArgTreeDirs(a) == UNION {TreeDirs(d) : d \in Range(a.dirs)}

\* The paths whose open fails, in the modelled runs: none; the directories 2
\* and 5 and the file 4; the directory 4.
NoneFails == [dirs |-> {}, files |-> {}]
NoOpenInputs ==
    {NoneFails,
     [dirs |-> {2, 5}, files |-> {4}],
     [dirs |-> {4}, files |-> {}]}

\* WalkDir::spawn: the directory arguments whose JobChunk::from_path
\* succeeds; the others are dropped by filter_map(.. .ok()).
chunks(a, bad) == SelectSeq(a.dirs, LAMBDA d : d \notin bad.dirs)

WalkerIds == 0..1
WorkerIds == 0..1

\* What Sv2ItemIter yields for a file and IoctlSearchItem::parse makes of it:
\* an ExtentInfo, a hole (Ok(None)), a parse error, or an ioctl error.
ItemOk(e) == [r |-> "Ok", e |-> e]
ItemHole == [r |-> "Hole"]
ItemParseErr == [r |-> "ParseErr"]
ItemIoctlErr == [r |-> "IoctlErr"]

RegularK1 == [type |-> "Regular", compression |-> 3, disk_bytenr |-> 1,
              stat |-> [disk |-> 1, uncomp |-> 2, refd |-> 1]]
RegularK1b == [type |-> "Regular", compression |-> 3, disk_bytenr |-> 1,
               stat |-> [disk |-> 1, uncomp |-> 2, refd |-> 2]]
InlineZ == [type |-> "Inline", compression |-> 0, disk_bytenr |-> 0,
            stat |-> [disk |-> 1, uncomp |-> 2, refd |-> 2]]
PreallocK2 == [type |-> "Prealloc", compression |-> 0, disk_bytenr |-> 2,
               stat |-> [disk |-> 2, uncomp |-> 3, refd |-> 1]]

\* The records of each file.  Files 1 and 2 share an extent (a reflink).  A
\* failing file yields one record, then fails (file 1 on the ioctl, the others
\* on parsing), and would yield one more record after the failure.
ItemsOf(f, bad) ==
    IF f \in bad
    THEN << ItemOk(RegularK1),
            IF f = 1 THEN ItemIoctlErr ELSE ItemParseErr,
            ItemOk(PreallocK2) >>
    ELSE IF f > 4 THEN <<ItemOk(RegularK1)>>
    ELSE << <<ItemOk(RegularK1)>>,
            <<ItemOk(RegularK1b)>>,
            <<ItemHole, ItemOk(InlineZ)>>,
            <<ItemOk(PreallocK2)>> >>[f]

\* ------------------------------------------------ global.rs: the error flag
\* get_err(): Err iff the flag is set.
get_err(flag) == IF flag THEN "Err" ELSE "Ok"

\* Mutant: a plain store instead of the compare-exchange.
set_err_store(flag) == [ret |-> "Ok", flag |-> TRUE]

\* set_err(): compare_exchange(false, true); Ok iff this call changed the flag.
set_err(flag) ==
    IF flag = FALSE THEN [ret |-> "Ok", flag |-> TRUE]
    ELSE [ret |-> "Err", flag |-> flag]

\* ------------------------------------------------ the bounded channels
\* Mutant: a send never waits for room.
has_room_unbounded(chan, n, cap) == TRUE

\* sender.send(..).await on a channel made by bounded(cap): the send of n
\* messages completes only if the queue has room for them, else the sender
\* stays suspended.
has_room(chan, n, cap) == Len(chan) + n <= cap

\* --------------------------------------------------------- taskpak.rs
\* Mutant: the residue of a dropped TaskPak is not flushed.
taskpak_drop_noflush(inner) == {}

\* Drop for TaskPak: the batch the spawned flush task will send, if any.
taskpak_drop(inner) == IF inner # <<>> THEN {inner} ELSE {}

\* TaskPak::is_full after a push.
is_full(inner, size) == Len(inner) >= size

\* ------------------------------------------------------ walkdir.rs: JobMgr
NoChunk == [dev |-> 0, fd |-> 0, dirs |-> <<>>]
NoSend == [id |-> -1, chunk |-> NoChunk]
EmptyJobs == [d \in {} |-> [dirs |-> <<>>, fd |-> 0]]

\* JobChunk::from_path(path): the chunk of a directory argument.
from_path(d) == [dev |-> get_dev(d), fd |-> d, dirs |-> <<d>>]

\* Mutant: the buckets are not kept apart by device: a chunk is appended to
\* the first bucket, if there is one.
JobMgr_push_any_bucket(jl, chunk) ==
    IF DOMAIN jl # {}
    THEN LET dev == CHOOSE d \in DOMAIN jl : \A e \in DOMAIN jl : d <= e
         IN  [jl EXCEPT ![dev].dirs = @ \o chunk.dirs]
    ELSE [d \in {chunk.dev} |-> [dirs |-> chunk.dirs, fd |-> chunk.fd]]

\* JobMgr::push: append to the bucket of the chunk's device, or create it
\* with the chunk's fd.
JobMgr_push(jl, chunk) ==
    IF chunk.dev \in DOMAIN jl
    THEN [jl EXCEPT ![chunk.dev].dirs = @ \o chunk.dirs]
    ELSE [d \in DOMAIN jl \cup {chunk.dev} |->
             IF d = chunk.dev THEN [dirs |-> chunk.dirs, fd |-> chunk.fd]
             ELSE jl[d]]

\* Mutant: the whole bucket is taken whatever its length.
get_n_jobs_all(jl, dev, n) ==
    [jobs |-> [d \in DOMAIN jl \ {dev} |-> jl[d]],
     chunk |-> [dev |-> dev, fd |-> jl[dev].fd, dirs |-> jl[dev].dirs]]

\* JobMgr::get_n_jobs(n) on the bucket of dev (the first key of the map): the
\* whole bucket if it holds at most n directories, else its first n.
get_n_jobs(jl, dev, n) ==
    IF Len(jl[dev].dirs) <= n
    THEN [jobs |-> [d \in DOMAIN jl \ {dev} |-> jl[d]],
          chunk |-> [dev |-> dev, fd |-> jl[dev].fd, dirs |-> jl[dev].dirs]]
    ELSE [jobs |-> [jl EXCEPT ![dev].dirs = SubSeq(@, n + 1, Len(@))],
          chunk |-> [dev |-> dev, fd |-> jl[dev].fd,
                     dirs |-> SubSeq(jl[dev].dirs, 1, n)]]

RECURSIVE push_all(_, _)
\* The loop of WalkDir::spawn pushing the chunk of every directory argument.
push_all(jl, ds) ==
    IF ds = <<>> THEN jl
    ELSE push_all(JobMgr_push(jl, from_path(Head(ds))), Tail(ds))

\* Mutant: the walker id is read but left in pending_walkers.
pop_pending_keep(pw) == [id |-> pw[Len(pw)], rest |-> pw]

\* pending_walkers.pop(): the last id and the list without it.
pop_pending(pw) == [id |-> pw[Len(pw)], rest |-> SubSeq(pw, 1, Len(pw) - 1)]

\* Mutant: off by one in the comparison.
all_walkers_free_gt(pw, wk) == Len(pw) > Cardinality(wk)

\* job_balance: pending_walkers.len() == walkers.len()
all_walkers_free(pw, wk) == Len(pw) = Cardinality(wk)

\* TaskPak::push(item): the buffer afterwards and the batch sent downstream
\* (a sequence of zero or one batch).
push(inner, item, size) ==
    LET v == Append(inner, item)
    IN  IF is_full(v, size) THEN [inner |-> <<>>, send |-> <<v>>]
        ELSE [inner |-> v, send |-> <<>>]

PushJobs(chunk) == [kind |-> "PushJobs", chunk |-> chunk]
RequireJobs(id) == [kind |-> "RequireJobs", id |-> id]

Running == exit_code = -1

\* Mutant: cleanup keeps the senders of the Walker channels.
cleanup_keep_senders ==
    /\ global_joblist' = EmptyJobs
    /\ pending_walkers' = <<>>
    /\ UNCHANGED walkers

\* ---------------------------------------------------- walkdir.rs: Director
\* WalkDir::cleanup
cleanup ==
    /\ global_joblist' = EmptyJobs
    /\ pending_walkers' = <<>>
    /\ walkers' = {}

\* The while loop of job_balance, from its condition to the next send (a
\* rendezvous on the Walker's channel of capacity 0) or to the return.
balance_loop(jl, pw) ==
    IF pw # <<>> /\ DOMAIN jl # {}
    THEN \E dev \in DOMAIN jl :
            LET r == get_n_jobs(jl, dev, MAX_LOCAL_LEN \div 2)
                p == pop_pending(pw)
            IN  /\ global_joblist' = r.jobs
                /\ pending_walkers' = p.rest
                /\ d_send' = [id |-> p.id, chunk |-> r.chunk]
                /\ dpc' = "send"
    ELSE /\ global_joblist' = jl
         /\ pending_walkers' = pw
         /\ d_send' = NoSend
         /\ dpc' = "recv"

\* WalkDir::job_balance, entered with job list jl and pending list pw.
job_balance(jl, pw) ==
    IF DOMAIN jl = {}
    THEN /\ dpc' = "recv"
         /\ d_send' = NoSend
         /\ IF all_walkers_free(pw, walkers)
            THEN cleanup /\ closed_idle' = TRUE
            ELSE /\ global_joblist' = jl
                 /\ pending_walkers' = pw
                 /\ UNCHANGED <<walkers, closed_idle>>
    ELSE balance_loop(jl, pw) /\ UNCHANGED <<walkers, closed_idle>>

\* The Director task starts: self_.job_balance().await (walkdir.rs:159).
DirectorStart ==
    /\ Running
    /\ dpc = "start"
    /\ job_balance(global_joblist, pending_walkers)
    /\ UNCHANGED <<stat, extent_map, histvars, cfgvars, errvars, inbox, walkvars,
                   ftvars, wchanvars, workvars, cchanvars, exit_code, cpc, rendered>>

\* WalkDir::handle(msg) on the next message of the inbox.
DirectorHandle ==
    /\ Running
    /\ dpc = "recv"
    /\ inbox # <<>>
    /\ inbox' = Tail(inbox)
    /\ LET msg == Head(inbox)
       IN  IF get_err(err) = "Ok"
           THEN IF msg.kind = "PushJobs"
                THEN job_balance(JobMgr_push(global_joblist, msg.chunk),
                                 pending_walkers)
                ELSE job_balance(global_joblist,
                                 Append(pending_walkers, msg.id))
           ELSE /\ cleanup
                /\ dpc' = "recv"
                /\ d_send' = NoSend
                /\ UNCHANGED closed_idle
    /\ UNCHANGED <<stat, extent_map, histvars, cfgvars, errvars, walkvars,
                   ftvars, wchanvars, workvars, cchanvars, exit_code, cpc, rendered>>

\* Mutant: after the rendezvous the Director leaves the loop of job_balance.
Handoff_noloop ==
    /\ Running
    /\ dpc = "send"
    /\ LET id == d_send.id
       IN  /\ wpc[id] \in {"idle", "done"}
           /\ IF wpc[id] = "idle"
              THEN /\ wpc' = [wpc EXCEPT ![id] = "walk"]
                   /\ w_dirs' = [w_dirs EXCEPT ![id] = d_send.chunk.dirs]
                   /\ w_chunk' = [w_chunk EXCEPT ![id] =
                                     [dev |-> d_send.chunk.dev,
                                      fd |-> d_send.chunk.fd]]
              ELSE UNCHANGED <<wpc, w_dirs, w_chunk>>
    /\ dpc' = "recv"
    /\ d_send' = NoSend
    /\ UNCHANGED <<walkers, closed_idle, global_joblist, pending_walkers>>
    /\ UNCHANGED <<stat, extent_map, histvars, cfgvars, errvars, inbox,
                   w_files, w_out, w_pak,
                   ftvars, wchanvars, workvars, cchanvars, exit_code, cpc, rendered>>

\* The rendezvous of walker.send(WalkerMsg { chunk }) with the Walker's recv:
\* the Walker takes the chunk (Walker::handle loads it into its deque) and the
\* Director goes on with its loop.  A send to a Walker that is gone fails and
\* is ignored (.ok()).
Handoff ==
    /\ Running
    /\ dpc = "send"
    /\ LET id == d_send.id
       IN  /\ wpc[id] \in {"idle", "done"}
           /\ IF wpc[id] = "idle"
              THEN /\ wpc' = [wpc EXCEPT ![id] = "walk"]
                   /\ w_dirs' = [w_dirs EXCEPT ![id] = d_send.chunk.dirs]
                   /\ w_chunk' = [w_chunk EXCEPT ![id] =
                                     [dev |-> d_send.chunk.dev,
                                      fd |-> d_send.chunk.fd]]
              ELSE UNCHANGED <<wpc, w_dirs, w_chunk>>
    /\ balance_loop(global_joblist, pending_walkers)
    /\ UNCHANGED <<walkers, closed_idle>>
    /\ UNCHANGED <<stat, extent_map, histvars, cfgvars, errvars, inbox,
                   w_files, w_out, w_pak,
                   ftvars, wchanvars, workvars, cchanvars, exit_code, cpc, rendered>>

\* The Director's recv fails: every Walker has dropped its sender and the
\* inbox is drained.  The task ends and self_ is dropped.
DirectorExit ==
    /\ Running
    /\ dpc = "recv"
    /\ inbox = <<>>
    /\ \A i \in WalkerIds : wpc[i] = "done"
    /\ dpc' = "done"
    /\ walkers' = {}
    /\ UNCHANGED <<pending_walkers, global_joblist, d_send, closed_idle>>
    /\ UNCHANGED <<stat, extent_map, histvars, cfgvars, errvars, inbox, walkvars,
                   ftvars, wchanvars, workvars, cchanvars, exit_code, cpc, rendered>>

\* ------------------------------------------------------ walkdir.rs: Walker
\* Mutant: the deque is drained only one entry later.
drain_overflow_late(dirs) ==
    IF Len(dirs) > MAX_LOCAL_LEN + 1
    THEN LET r == Len(dirs) - MAX_LOCAL_LEN \div 2
         IN  [v |-> SubSeq(dirs, 1, r), dirs |-> SubSeq(dirs, r + 1, Len(dirs))]
    ELSE [v |-> <<>>, dirs |-> dirs]

\* Walker::handle, walkdir.rs:312-314: if the deque holds more than
\* MAX_LOCAL_LEN entries, drain(0..r) with r = len - MAX_LOCAL_LEN / 2 takes
\* its front; v is what is drained, dirs what the deque keeps.
drain_overflow(dirs) ==
    IF Len(dirs) > MAX_LOCAL_LEN
    THEN LET r == Len(dirs) - MAX_LOCAL_LEN \div 2
         IN  [v |-> SubSeq(dirs, 1, r), dirs |-> SubSeq(dirs, r + 1, Len(dirs))]
    ELSE [v |-> <<>>, dirs |-> dirs]

\* Mutant: the RequireJobs is queued ahead of the PushJobs.
AfterEntries_require_first(i, dirs, out) ==
    LET d == drain_overflow(dirs)
        out2 == IF d.v # <<>>
                THEN Append(out, PushJobs([dev |-> w_chunk[i].dev,
                                           fd |-> w_chunk[i].fd,
                                           dirs |-> d.v]))
                ELSE out
        dirs2 == d.dirs
        out3 == IF dirs2 = <<>> THEN <<RequireJobs(i)>> \o out2 ELSE out2
    IN  /\ w_dirs' = [w_dirs EXCEPT ![i] = dirs2]
        /\ w_out' = [w_out EXCEPT ![i] = out3]
        /\ wpc' = [wpc EXCEPT ![i] = IF out3 = <<>> THEN "walk" ELSE "send"]

\* Walker::handle after the entries of a directory (walkdir.rs:306-329): the
\* PushJobs of the new-device chunks, the PushJobs of the overflow of the
\* deque, and, when the deque is empty, the RequireJobs that ends the handler.
AfterEntries(i, dirs, out) ==
    LET d == drain_overflow(dirs)
        out2 == IF d.v # <<>>
                THEN Append(out, PushJobs([dev |-> w_chunk[i].dev,
                                           fd |-> w_chunk[i].fd,
                                           dirs |-> d.v]))
                ELSE out
        dirs2 == d.dirs
        out3 == IF dirs2 = <<>> THEN Append(out2, RequireJobs(i)) ELSE out2
    IN  /\ w_dirs' = [w_dirs EXCEPT ![i] = dirs2]
        /\ w_out' = [w_out EXCEPT ![i] = out3]
        /\ wpc' = [wpc EXCEPT ![i] = IF out3 = <<>> THEN "walk" ELSE "send"]

\* Mutant: the one-filesystem flag is not consulted.
newfs_dirs_always(other, x) ==
    [k \in 1..Len(other) |->
        PushJobs([dev |-> get_dev(other[k]), fd |-> other[k],
                  dirs |-> <<other[k]>>])]

\* Walker::handle on the entries that are directories of another device than
\* the chunk's (walkdir.rs:286-299): skipped if one_fs is set, else one new
\* JobChunk each, announced to the Director after the entries.
newfs_dirs(other, x) ==
    IF x THEN <<>>
    ELSE [k \in 1..Len(other) |->
             PushJobs([dev |-> get_dev(other[k]), fd |-> other[k],
                       dirs |-> <<other[k]>>])]

\* The top of the while loop of Walker::handle (walkdir.rs:247-250): the loop
\* ends if the deque is empty; else a directory is popped and the error flag
\* is checked: if it is set the loop is left and the deque dropped.
WalkerPop(i) ==
    /\ Running
    /\ wpc[i] = "walk"
    /\ IF Len(w_dirs[i]) = 0 \/ get_err(err) = "Err"
       THEN /\ w_dirs' = [w_dirs EXCEPT ![i] = <<>>]
            /\ w_out' = [w_out EXCEPT ![i] = <<RequireJobs(i)>>]
            /\ wpc' = [wpc EXCEPT ![i] = "send"]
       ELSE /\ wpc' = [wpc EXCEPT ![i] = "open"]
            /\ UNCHANGED <<w_dirs, w_out>>
    /\ UNCHANGED <<w_chunk, w_files, w_pak>>
    /\ UNCHANGED <<stat, extent_map, histvars, cfgvars, errvars, dirvars, inbox,
                   ftvars, wchanvars, workvars, cchanvars, exit_code, cpc, rendered>>

\* Walker::handle after the flag check (walkdir.rs:251-299): open the
\* directory popped (the last of w_dirs) and classify its entries that are
\* directories.
WalkerOpenDir(i) ==
    /\ Running
    /\ wpc[i] = "open"
    /\ late_open' = [late_open EXCEPT ![i] = IF err THEN @ + 1 ELSE @]
    /\ LET n == Len(w_dirs[i])
           dir == w_dirs[i][n]
           rest == SubSeq(w_dirs[i], 1, n - 1)
           dev == w_chunk[i].dev
           same == SelectSeq(SubDirsOf(dir), LAMBDA s : get_dev(s) = dev)
           other == SelectSeq(SubDirsOf(dir),
                              LAMBDA s : get_dev(s) # dev /\ s \notin noopen.dirs)
           newfs == newfs_dirs(other, one_fs)
       IN  IF dir \in noopen.dirs
           THEN \* open fails: eprintln!, continue
                /\ path_diag' = path_diag \cup {<<"dir", dir>>}
                /\ w_dirs' = [w_dirs EXCEPT ![i] = rest]
                /\ w_out' = [w_out EXCEPT ![i] =
                                IF rest = <<>> THEN <<RequireJobs(i)>>
                                ELSE <<>>]
                /\ wpc' = [wpc EXCEPT ![i] =
                              IF rest = <<>> THEN "send" ELSE "walk"]
                /\ UNCHANGED <<w_files, enumerated>>
           ELSE IF FilesOf(dir) = <<>>
                THEN /\ AfterEntries(i, rest \o same, newfs)
                     /\ enumerated' = [enumerated EXCEPT ![dir] = @ + 1]
                     /\ UNCHANGED <<w_files, path_diag>>
                ELSE /\ w_files' = [w_files EXCEPT ![i] = FilesOf(dir)]
                     /\ w_dirs' = [w_dirs EXCEPT ![i] = rest \o same]
                     /\ w_out' = [w_out EXCEPT ![i] = newfs]
                     /\ wpc' = [wpc EXCEPT ![i] = "files"]
                     /\ enumerated' = [enumerated EXCEPT ![dir] = @ + 1]
                     /\ UNCHANGED path_diag
    /\ UNCHANGED <<w_chunk, w_pak>>
    /\ UNCHANGED <<err, set_err_rets, stderr, met, late_push, late_start>>
    /\ UNCHANGED <<stat, extent_map, histvars, cfgvars, dirvars, inbox,
                   ftvars, wchanvars, workvars, cchanvars, exit_code, cpc, rendered>>

\* self.file_handler.consume(File_::new(fd.clone(), path, ino)).await for the
\* next regular file of the directory: TaskPak::push, which suspends while
\* the Worker channel is full when the push fills the buffer.
WalkerConsume(i) ==
    /\ Running
    /\ wpc[i] = "files"
    /\ LET f == Head(w_files[i])
           r == push(w_pak[i], [id |-> f, fd |-> w_chunk[i].fd], FilePakSize)
       IN  /\ has_room(wchan, Len(r.send), WorkerChanCap)
           /\ wchan' = wchan \o r.send
           /\ w_pak' = [w_pak EXCEPT ![i] = r.inner]
           /\ w_files' = [w_files EXCEPT ![i] = Tail(@)]
           /\ IF Tail(w_files[i]) = <<>>
              THEN AfterEntries(i, w_dirs[i], w_out[i])
              ELSE UNCHANGED <<w_dirs, w_out, wpc>>
    /\ UNCHANGED <<w_chunk, flushW>>
    /\ UNCHANGED <<stat, extent_map, histvars, cfgvars, errvars, dirvars, inbox,
                   ftvars, workvars, cchanvars, exit_code, cpc, rendered>>

\* self.master.send(msg).await.map_err(|_| ())? for the next PushJobs or for
\* the final RequireJobs; a failed send ends the Walker.
WalkerSend(i) ==
    /\ Running
    /\ wpc[i] = "send"
    /\ LET msg == Head(w_out[i])
       IN  IF dpc = "done"
           THEN /\ wpc' = [wpc EXCEPT ![i] = "done"]
                /\ flushW' = flushW \cup taskpak_drop(w_pak[i])
                /\ w_pak' = [w_pak EXCEPT ![i] = <<>>]
                /\ w_out' = [w_out EXCEPT ![i] = <<>>]
                /\ UNCHANGED inbox
           ELSE /\ has_room(inbox, 1, InboxCap)
                /\ inbox' = Append(inbox, msg)
                /\ w_out' = [w_out EXCEPT ![i] = Tail(@)]
                /\ wpc' = [wpc EXCEPT ![i] =
                              IF msg.kind = "RequireJobs" THEN "idle"
                              ELSE IF Tail(w_out[i]) = <<>> THEN "walk"
                              ELSE "send"]
                /\ UNCHANGED <<flushW, w_pak>>
    /\ UNCHANGED <<w_chunk, w_dirs, w_files, wchan>>
    /\ UNCHANGED <<stat, extent_map, histvars, cfgvars, errvars, dirvars,
                   ftvars, workvars, cchanvars, exit_code, cpc, rendered>>

\* The Walker's recv fails: the Director has dropped the sender of its
\* channel.  The Walker is dropped, and with it its TaskPak.
WalkerExit(i) ==
    /\ Running
    /\ wpc[i] = "idle"
    /\ i \notin walkers
    /\ wpc' = [wpc EXCEPT ![i] = "done"]
    /\ flushW' = flushW \cup taskpak_drop(w_pak[i])
    /\ w_pak' = [w_pak EXCEPT ![i] = <<>>]
    /\ UNCHANGED <<w_chunk, w_dirs, w_files, w_out, wchan>>
    /\ UNCHANGED <<stat, extent_map, histvars, cfgvars, errvars, dirvars, inbox,
                   ftvars, workvars, cchanvars, exit_code, cpc, rendered>>

\* The task of WalkDir::spawn consuming the path arguments that are files
\* (walkdir.rs:132-139); after the last one its TaskPak is dropped.
FileTaskConsume ==
    /\ Running
    /\ ft_files # <<>>
    /\ LET f == Head(ft_files)
           r == IF f \in noopen.files
                THEN \* File_::from_path fails: continue
                     [inner |-> ft_pak, send |-> <<>>]
                ELSE push(ft_pak, [id |-> f, fd |-> 0], FilePakSize)
       IN  /\ has_room(wchan, Len(r.send), WorkerChanCap)
           /\ wchan' = wchan \o r.send
           /\ ft_files' = Tail(ft_files)
           /\ IF Tail(ft_files) = <<>>
              THEN /\ flushW' = flushW \cup taskpak_drop(r.inner)
                   /\ ft_pak' = <<>>
              ELSE /\ ft_pak' = r.inner
                   /\ UNCHANGED flushW
    /\ UNCHANGED <<stat, extent_map, histvars, cfgvars, errvars, dirvars, inbox,
                   walkvars, workvars, cchanvars, exit_code, cpc, rendered>>

\* The flush task of a dropped TaskPak<File_> sends its batch.
FlushFiles ==
    /\ Running
    /\ \E b \in flushW :
        /\ has_room(wchan, 1, WorkerChanCap)
        /\ wchan' = Append(wchan, b)
        /\ flushW' = flushW \ {b}
    /\ UNCHANGED <<stat, extent_map, histvars, cfgvars, errvars, dirvars, inbox,
                   walkvars, ftvars, workvars, cchanvars, exit_code, cpc, rendered>>

\* ------------------------------------------------------ worker.rs: Worker
NFileMsg(n) == [kind |-> "NFile", n |-> n]
ExtentMsg(extents) == [kind |-> "Extent", extents |-> extents]

\* Mutant: the Collector writes the statistics whatever the flag says.
collector_drop_always(flag) == TRUE

\* Drop for Collector: whether the statistics are written to stdout.
collector_drop(flag) == get_err(flag) = "Ok"

\* Mutant: Drop for Worker sends nothing.
WorkerDrop_nonfile(k) ==
    /\ kpc' = [kpc EXCEPT ![k] = "done"]
    /\ flushC' = flushC
                 \cup {[w |-> k, msg |-> ExtentMsg(b)] : b \in taskpak_drop(k_pak[k])}
    /\ k_pak' = [k_pak EXCEPT ![k] = <<>>]
    /\ k_files' = [k_files EXCEPT ![k] = <<>>]
    /\ k_items' = [k_items EXCEPT ![k] = <<>>]

\* The Worker is dropped (its run loop has ended): Drop for Worker spawns the
\* task sending NFile(nfile), then Drop for its TaskPak spawns the flush of
\* the buffered extents.
WorkerDrop(k) ==
    /\ kpc' = [kpc EXCEPT ![k] = "done"]
    /\ flushC' = flushC
                 \cup {[w |-> k, msg |-> NFileMsg(k_nfile[k])]}
                 \cup {[w |-> k, msg |-> ExtentMsg(b)] : b \in taskpak_drop(k_pak[k])}
    /\ k_pak' = [k_pak EXCEPT ![k] = <<>>]
    /\ k_files' = [k_files EXCEPT ![k] = <<>>]
    /\ k_items' = [k_items EXCEPT ![k] = <<>>]

\* The for loop of Worker::handle moves past the current file.
AfterFile(k) ==
    /\ k_items' = [k_items EXCEPT ![k] = <<>>]
    /\ kpc' = [kpc EXCEPT ![k] = IF k_files[k] = <<>> THEN "idle" ELSE "files"]

\* The Worker's recv yields a batch of files: Worker::handle begins.
WorkerRecv(k) ==
    /\ Running
    /\ kpc[k] = "idle"
    /\ wchan # <<>>
    /\ wchan' = Tail(wchan)
    /\ k_files' = [k_files EXCEPT ![k] = Head(wchan)]
    /\ kpc' = [kpc EXCEPT ![k] = "files"]
    /\ UNCHANGED <<k_cur, k_items, k_nfile, k_pak, started, flushW>>
    /\ UNCHANGED <<stat, extent_map, histvars, cfgvars, errvars, dirvars, inbox,
                   walkvars, ftvars, cchanvars, exit_code, cpc, rendered>>

\* Mutant: the loop of Worker::handle does not consult the error flag.
WorkerCheck_nocheck(k) ==
    /\ Running
    /\ kpc[k] = "files"
    /\ kpc' = [kpc EXCEPT ![k] = "start"]
    /\ UNCHANGED <<k_files, k_items, k_pak, flushC>>
    /\ UNCHANGED <<k_cur, k_nfile, started, cchan>>
    /\ UNCHANGED <<stat, extent_map, histvars, cfgvars, errvars, dirvars, inbox,
                   walkvars, ftvars, wchanvars, exit_code, cpc, rendered>>

\* Worker::handle on the next file of the batch: get_err()? (worker.rs:81).
\* If the flag is set the handler returns Err and the Worker is dropped.
WorkerCheck(k) ==
    /\ Running
    /\ kpc[k] = "files"
    /\ IF get_err(err) = "Err"
       THEN WorkerDrop(k)
       ELSE /\ kpc' = [kpc EXCEPT ![k] = "start"]
            /\ UNCHANGED <<k_files, k_items, k_pak, flushC>>
    /\ UNCHANGED <<k_cur, k_nfile, started, cchan>>
    /\ UNCHANGED <<stat, extent_map, histvars, cfgvars, errvars, dirvars, inbox,
                   walkvars, ftvars, wchanvars, exit_code, cpc, rendered>>

\* The top of handle_file for the file whose flag check passed: nfile += 1
\* and the iterator over the file's items (worker.rs:40-44).
WorkerStartFile(k) ==
    /\ Running
    /\ kpc[k] = "start"
    /\ LET f == Head(k_files[k]).id
       IN  /\ k_nfile' = [k_nfile EXCEPT ![k] = @ + 1]
           /\ started' = [started EXCEPT ![f] = @ + 1]
           /\ k_cur' = [k_cur EXCEPT ![k] = f]
           /\ k_files' = [k_files EXCEPT ![k] = Tail(@)]
           /\ k_items' = [k_items EXCEPT ![k] = ItemsOf(f, failing)]
           /\ kpc' = [kpc EXCEPT ![k] = "items"]
           /\ late_start' = [late_start EXCEPT ![k] = IF err THEN @ + 1 ELSE @]
    /\ UNCHANGED <<k_pak, flushC, cchan>>
    /\ UNCHANGED <<err, set_err_rets, stderr, met, late_push, path_diag,
                   enumerated, late_open>>
    /\ UNCHANGED <<stat, extent_map, histvars, cfgvars, dirvars, inbox,
                   walkvars, ftvars, wchanvars, exit_code, cpc, rendered>>

\* One iteration of the for loop of handle_file (worker.rs:45-72).
WorkerItem(k) ==
    /\ Running
    /\ kpc[k] = "items"
    /\ LET f == k_cur[k]
           it == Head(k_items[k])
           last == Tail(k_items[k]) = <<>>
       IN  CASE it.r = "Ok" ->
                    LET r == push(k_pak[k], it.e, ExtentPakSize)
                        msgs == [j \in 1..Len(r.send) |-> ExtentMsg(r.send[j])]
                    IN  /\ has_room(cchan, Len(msgs), CollectorChanCap)
                        /\ cchan' = cchan \o msgs
                        /\ k_pak' = [k_pak EXCEPT ![k] = r.inner]
                        /\ late_push' = IF f \in met THEN late_push \cup {f}
                                        ELSE late_push
                        /\ IF last THEN AfterFile(k)
                           ELSE /\ k_items' = [k_items EXCEPT ![k] = Tail(@)]
                                /\ UNCHANGED kpc
                        /\ UNCHANGED <<err, set_err_rets, stderr, met, flushC,
                                       k_files>>
             [] it.r = "Hole" ->
                    /\ IF last THEN AfterFile(k)
                       ELSE /\ k_items' = [k_items EXCEPT ![k] = Tail(@)]
                            /\ UNCHANGED kpc
                    /\ UNCHANGED <<errvars, cchanvars, k_pak, k_files>>
             [] OTHER ->
                    LET r == set_err(err)
                    IN  /\ met' = met \cup {f}
                        /\ err' = r.flag
                        /\ set_err_rets' = [set_err_rets EXCEPT ![r.ret] = @ + 1]
                        /\ IF r.ret = "Ok"
                           THEN /\ stderr' = stderr \cup {f}
                                /\ AfterFile(k)
                                /\ UNCHANGED <<flushC, k_pak, k_files>>
                           ELSE /\ WorkerDrop(k)
                                /\ UNCHANGED stderr
                        /\ UNCHANGED <<cchan, late_push>>
    /\ UNCHANGED <<k_cur, k_nfile, started, path_diag, enumerated, late_start,
                   late_open>>
    /\ UNCHANGED <<stat, extent_map, histvars, cfgvars, dirvars, inbox,
                   walkvars, ftvars, wchanvars, exit_code, cpc, rendered>>

\* The Worker channel has no sender left (every Walker, the task of the file
\* arguments and every flush task has dropped its clone) and is drained.
WorkerChanClosed ==
    /\ wchan = <<>>
    /\ flushW = {}
    /\ ft_files = <<>>
    /\ \A i \in WalkerIds : wpc[i] = "done"

\* The Worker's recv fails on the closed channel: the Worker is dropped.
WorkerExit(k) ==
    /\ Running
    /\ kpc[k] = "idle"
    /\ WorkerChanClosed
    /\ WorkerDrop(k)
    /\ UNCHANGED <<k_cur, k_nfile, started, cchan>>
    /\ UNCHANGED <<stat, extent_map, histvars, cfgvars, errvars, dirvars, inbox,
                   walkvars, ftvars, wchanvars, exit_code, cpc, rendered>>

\* A task spawned by the drop of a Worker sends its message.
FlushCollector ==
    /\ Running
    /\ \E m \in flushC :
        /\ has_room(cchan, 1, CollectorChanCap)
        /\ cchan' = Append(cchan, m.msg)
        /\ flushC' = flushC \ {m}
    /\ UNCHANGED <<stat, extent_map, histvars, cfgvars, errvars, dirvars, inbox,
                   walkvars, ftvars, wchanvars, workvars, exit_code, cpc, rendered>>

\* ------------------------------------------------- collector.rs and main
\* The Collector's recv yields a message: Collector::handle.
CollectorRecv ==
    /\ Running
    /\ cpc = "run"
    /\ cchan # <<>>
    /\ LET r == handle(stat, extent_map, Head(cchan))
       IN  /\ stat' = r.stat
           /\ extent_map' = r.map
    /\ cchan' = Tail(cchan)
    /\ nfile_recv' = IF Head(cchan).kind = "NFile"
                      THEN Append(nfile_recv, Head(cchan).n)
                      ELSE nfile_recv
    /\ UNCHANGED <<inserted, auxvars>>
    /\ UNCHANGED <<cfgvars, errvars, dirvars, inbox, walkvars, ftvars,
                   wchanvars, workvars, flushC, exit_code, cpc, rendered>>

\* Mutant: the tasks spawned by the drops hold no sender of their own.
CollectorChanClosed_noclone ==
    /\ cchan = <<>>
    /\ \A k \in WorkerIds : kpc[k] = "done"

\* The Collector channel has no sender left and is drained.
CollectorChanClosed ==
    /\ cchan = <<>>
    /\ flushC = {}
    /\ \A k \in WorkerIds : kpc[k] = "done"

\* The Collector's recv fails on the closed channel: run ends and the
\* Collector is dropped, which writes the statistics or not.
CollectorExit ==
    /\ Running
    /\ cpc = "run"
    /\ CollectorChanClosed
    /\ cpc' = "done"
    /\ rendered' = IF collector_drop(err) THEN rendered + 1 ELSE rendered
    /\ UNCHANGED <<stat, extent_map, histvars, cfgvars, errvars, dirvars, inbox,
                   walkvars, ftvars, wchanvars, workvars, cchanvars, exit_code>>

\* The end of main: exit(1) if get_err().is_err(), else return (exit code 0).
exit_status(flag) == IF get_err(flag) = "Err" THEN 1 ELSE 0

\* main after block_on.  The process ends, and with it every task still
\* alive.
MainExit ==
    /\ Running
    /\ cpc = "done"
    /\ exit_code' = exit_status(err)
    /\ UNCHANGED <<stat, extent_map, histvars, cfgvars, errvars, dirvars, inbox,
                   walkvars, ftvars, wchanvars, workvars, cchanvars, cpc, rendered>>

\* ------------------------------------------------------- the whole program
\* The state when main enters block_on: WalkDir::spawn has bucketed the
\* directory arguments, spawned the Walkers and the Director (none if no
\* argument is a directory, walkdir.rs:140-142) and the Workers.
Init ==
    /\ stat = CompsizeStatDefault
    /\ extent_map = {}
    /\ cpc = "run"
    /\ rendered = 0
    /\ inserted = <<>>
    /\ nfile_recv = <<>>
    /\ NoAux
    /\ jobs \in JobsInputs
    /\ one_fs \in BOOLEAN
    /\ args \in ArgInputs
    /\ failing \in {s \in FailingInputs : s \subseteq AllFiles(args)}
    /\ err = FALSE
    /\ set_err_rets = [Ok |-> 0, Err |-> 0]
    /\ stderr = {}
    /\ met = {}
    /\ noopen \in {n \in NoOpenInputs :
                       /\ n.dirs \subseteq ArgTreeDirs(args)
                       /\ n.files \subseteq Range(args.files)
                       /\ n = NoneFails \/ failing = {}}
    /\ late_push = {}
    /\ path_diag = {}
    /\ enumerated = [d \in Dirs |-> 0]
    /\ late_start = [k \in WorkerIds |-> 0]
    /\ late_open = [i \in WalkerIds |-> 0]
    /\ dpc = IF chunks(args, noopen) = <<>> THEN "done" ELSE "start"
    /\ walkers = IF chunks(args, noopen) = <<>> THEN {} ELSE 0..(jobs - 1)
    /\ pending_walkers = IF chunks(args, noopen) = <<>> THEN <<>>
                         ELSE [j \in 1..jobs |-> j - 1]
    /\ global_joblist = push_all(EmptyJobs, chunks(args, noopen))
    /\ d_send = NoSend
    /\ inbox = <<>>
    /\ closed_idle = FALSE
    /\ wpc = [i \in WalkerIds |->
                 IF chunks(args, noopen) # <<>> /\ i < jobs THEN "idle"
                 ELSE "done"]
    /\ w_chunk = [i \in WalkerIds |-> [dev |-> 0, fd |-> 0]]
    /\ w_dirs = [i \in WalkerIds |-> <<>>]
    /\ w_files = [i \in WalkerIds |-> <<>>]
    /\ w_out = [i \in WalkerIds |-> <<>>]
    /\ w_pak = [i \in WalkerIds |-> <<>>]
    /\ ft_files = args.files
    /\ ft_pak = <<>>
    /\ wchan = <<>>
    /\ flushW = {}
    /\ kpc = [k \in WorkerIds |-> IF k < jobs THEN "idle" ELSE "done"]
    /\ k_files = [k \in WorkerIds |-> <<>>]
    /\ k_cur = [k \in WorkerIds |-> 0]
    /\ k_items = [k \in WorkerIds |-> <<>>]
    /\ k_nfile = [k \in WorkerIds |-> 0]
    /\ k_pak = [k \in WorkerIds |-> <<>>]
    /\ started = [f \in Files |-> 0]
    /\ cchan = <<>>
    /\ flushC = {}
    /\ exit_code = -1

Next ==
    \/ DirectorStart
    \/ DirectorHandle
    \/ Handoff
    \/ DirectorExit
    \/ \E i \in WalkerIds : WalkerPop(i)
    \/ \E i \in WalkerIds : WalkerOpenDir(i)
    \/ \E i \in WalkerIds : WalkerConsume(i)
    \/ \E i \in WalkerIds : WalkerSend(i)
    \/ \E i \in WalkerIds : WalkerExit(i)
    \/ FileTaskConsume
    \/ FlushFiles
    \/ \E k \in WorkerIds : WorkerRecv(k)
    \/ \E k \in WorkerIds : WorkerCheck(k)
    \/ \E k \in WorkerIds : WorkerStartFile(k)
    \/ \E k \in WorkerIds : WorkerItem(k)
    \/ \E k \in WorkerIds : WorkerExit(k)
    \/ FlushCollector
    \/ CollectorRecv
    \/ CollectorExit
    \/ MainExit

Spec == Init /\ [][Next]_vars

\* The executor runs a task that is ready: while some step is possible, a
\* step is eventually taken.
FairSpec == Spec /\ WF_vars(Next)

\* ------------------------------------------------------------ SpecAgg
\* The Collector alone, fed arbitrary messages: no Walker, no Worker, the
\* messages come from the environment.
NoPipeline ==
    /\ cpc = "run"
    /\ rendered = 0
    /\ jobs = 1
    /\ one_fs = FALSE
    /\ failing = {}
    /\ args = [dirs |-> <<>>, files |-> <<>>]
    /\ noopen = NoneFails
    /\ path_diag = {}
    /\ enumerated = [d \in Dirs |-> 0]
    /\ late_start = [k \in WorkerIds |-> 0]
    /\ late_open = [i \in WalkerIds |-> 0]
    /\ err = FALSE
    /\ set_err_rets = [Ok |-> 0, Err |-> 0]
    /\ stderr = {}
    /\ met = {}
    /\ late_push = {}
    /\ dpc = "done"
    /\ walkers = {}
    /\ pending_walkers = <<>>
    /\ global_joblist = EmptyJobs
    /\ d_send = NoSend
    /\ inbox = <<>>
    /\ closed_idle = FALSE
    /\ wpc = [i \in WalkerIds |-> "done"]
    /\ w_chunk = [i \in WalkerIds |-> [dev |-> 0, fd |-> 0]]
    /\ w_dirs = [i \in WalkerIds |-> <<>>]
    /\ w_files = [i \in WalkerIds |-> <<>>]
    /\ w_out = [i \in WalkerIds |-> <<>>]
    /\ w_pak = [i \in WalkerIds |-> <<>>]
    /\ ft_files = <<>>
    /\ ft_pak = <<>>
    /\ wchan = <<>>
    /\ flushW = {}
    /\ kpc = [k \in WorkerIds |-> "done"]
    /\ k_files = [k \in WorkerIds |-> <<>>]
    /\ k_cur = [k \in WorkerIds |-> 0]
    /\ k_items = [k \in WorkerIds |-> <<>>]
    /\ k_nfile = [k \in WorkerIds |-> 0]
    /\ k_pak = [k \in WorkerIds |-> <<>>]
    /\ started = [f \in Files |-> 0]
    /\ cchan = <<>>
    /\ flushC = {}
    /\ exit_code = -1

InitAgg ==
    /\ stat = CompsizeStatDefault
    /\ extent_map = {}
    /\ inserted = <<>>
    /\ nfile_recv = <<>>
    /\ NoPipeline
    /\ NoAux

\* Collector::handle(CollectorMsg::Extent(extents))
HandleExtent ==
    \E n \in 1..MaxBatch :
        /\ Len(inserted) + Len(nfile_recv) + n <= MaxLen
        /\ \E extents \in [1..n -> ExtentInputs] :
            /\ LET r == handle(stat, extent_map,
                               [kind |-> "Extent", extents |-> extents])
               IN  /\ stat' = r.stat
                   /\ extent_map' = r.map
            /\ inserted' = inserted \o extents
            /\ UNCHANGED <<nfile_recv, pipevars, auxvars>>

\* Collector::handle(CollectorMsg::NFile(n))
HandleNFile ==
    \E n \in 0..MaxNFile :
        /\ Len(inserted) + Len(nfile_recv) < MaxLen
        /\ LET r == handle(stat, extent_map, [kind |-> "NFile", n |-> n])
           IN  /\ stat' = r.stat
               /\ extent_map' = r.map
        /\ nfile_recv' = Append(nfile_recv, n)
        /\ UNCHANGED <<inserted, pipevars, auxvars>>

NextAgg == HandleExtent \/ HandleNFile

SpecAgg == InitAgg /\ [][NextAgg]_vars

\* ------------------------------------------------------------ SpecPak
\* One TaskPak of batch size FilePakSize feeding a channel of capacity
\* WorkerChanCap whose receiver stays alive; the owner pushes elements and
\* drops the TaskPak at any time.
NoAgg ==
    /\ stat = CompsizeStatDefault
    /\ extent_map = {}
    /\ inserted = <<>>
    /\ nfile_recv = <<>>

\* The elements pushed in SpecPak.
PakItems == {1, 2}

InitPak ==
    /\ NoAgg
    /\ NoPipeline
    /\ NoExtra
    /\ NoRec
    /\ NoIter
    /\ NoFmt
    /\ p_inner = <<>>
    /\ p_alive = TRUE
    /\ p_chan = <<>>
    /\ p_flush = {}
    /\ p_pushed = <<>>
    /\ p_recv = <<>>

\* TaskPak::push(item): suspended while the push fills the buffer and the
\* channel has no room.
PakPush ==
    /\ p_alive
    /\ Len(p_pushed) < MaxPush
    /\ \E item \in PakItems :
        LET r == push(p_inner, item, FilePakSize)
        IN  /\ has_room(p_chan, Len(r.send), WorkerChanCap)
            /\ p_chan' = p_chan \o r.send
            /\ p_inner' = r.inner
            /\ p_pushed' = Append(p_pushed, item)
    /\ UNCHANGED <<p_alive, p_flush, p_recv>>
    /\ UNCHANGED pakrest

\* Drop for TaskPak: take(&mut self.inner) goes to a spawned flush task.
PakDrop ==
    /\ p_alive
    /\ p_alive' = FALSE
    /\ p_flush' = taskpak_drop(p_inner)
    /\ p_inner' = <<>>
    /\ UNCHANGED <<p_chan, p_pushed, p_recv>>
    /\ UNCHANGED pakrest

\* The flush task: handler.send(item).await.
PakFlush ==
    /\ \E b \in p_flush :
        /\ has_room(p_chan, 1, WorkerChanCap)
        /\ p_chan' = Append(p_chan, b)
        /\ p_flush' = p_flush \ {b}
    /\ UNCHANGED <<p_inner, p_alive, p_pushed, p_recv>>
    /\ UNCHANGED pakrest

\* The receiver of the channel takes the next batch.
PakRecv ==
    /\ p_chan # <<>>
    /\ p_recv' = Append(p_recv, Head(p_chan))
    /\ p_chan' = Tail(p_chan)
    /\ UNCHANGED <<p_inner, p_alive, p_flush, p_pushed>>
    /\ UNCHANGED pakrest

NextPak == PakPush \/ PakDrop \/ PakFlush \/ PakRecv

SpecPak == InitPak /\ [][NextPak]_vars

\* ====================================================================
\* SpecParse: Worker::handle_file on the raw records of one file.  Each record
\* is decoded (IoctlSearchItem::from_le_raw, in Sv2ItemIter::next) and parsed
\* (IoctlSearchItem::parse); the flag may also be set by another Worker.
\* ====================================================================
MaxRecs == 2

\* size_of_val(&self.item.header): the packed FileExtentHeader.
HeaderSize == 21
\* size_of::<FileExtent>(): the header and the packed Meta.
FileExtentSize == 53
\* The modulus of u64 arithmetic, scaled from 2^64 to 2^30 to fit the integers
\* of the model checker; every byte count of the model is far below it.
U64 == 1073741824

Panic == [r |-> "Panic"]

\* The raw records: the type and compression bytes, the item length
\* (header.len), ram_bytes and the Meta fields.  An Inline record has no Meta;
\* a Regular or Prealloc record shorter than 53 bytes has Meta bytes that
\* belong to whatever follows it in the buffer.
RecInputs ==
    [type : {0}, compression : {0, 3, 4}, len : {20, 21, 25},
     ram_bytes : {100}, disk_bytenr : {0}, disk_num_bytes : {0},
     num_bytes : {0}]
    \cup
    [type : {1, 2}, compression : {3}, len : {21, 53, 54},
     ram_bytes : {8192}, disk_bytenr : {0, 4096, 4097, 8192},
     disk_num_bytes : {4096}, num_bytes : {2048}]
    \cup
    [type : {1}, compression : {0, 4}, len : {53, 54},
     ram_bytes : {8192}, disk_bytenr : {0, 4096, 4097},
     disk_num_bytes : {4096}, num_bytes : {2048}]
    \cup
    [type : {3}, compression : {0}, len : {53},
     ram_bytes : {8192}, disk_bytenr : {4096},
     disk_num_bytes : {4096}, num_bytes : {2048}]

\* Compression::from_u8: assert!(n <= 3), then transmute.
Compression_from_u8(n) == IF n <= 3 THEN [r |-> "Ok", v |-> n] ELSE Panic

\* ExtentType::from_u8: panic!("Invalid extent type") if n > 2, then transmute.
ExtentType_from_u8(n) ==
    IF n > 2 THEN Panic
    ELSE [r |-> "Ok", v |-> <<"Inline", "Regular", "Prealloc">>[n + 1]]

\* FileExtentHeader::is_inline.
is_inline(rec) == ExtentType_from_u8(rec.type).v = "Inline"

\* FileExtent::from_le_raw: decodes the header, asks is_inline (which decodes
\* the type byte), and decodes Meta unless the record is inline.
from_le_raw(rec) ==
    IF ExtentType_from_u8(rec.type).r = "Panic" THEN Panic ELSE [r |-> "Ok"]

\* Mutant: the disk key is the byte address itself.
disk_key_noshift(disk_bytenr) == disk_bytenr

\* let disk_bytenr = disk_bytenr >> 12.
disk_key(disk_bytenr) == disk_bytenr \div 4096

\* IoctlSearchItem::parse.  checked tells whether the build checks integer
\* overflow: hlen as u64 - 21 panics then when hlen < 21, and wraps otherwise.
parse(rec, checked) ==
    LET hlen == rec.len
        ram_bytes == rec.ram_bytes
        compression == Compression_from_u8(rec.compression)
        type == ExtentType_from_u8(rec.type)
    IN  IF compression.r = "Panic" THEN Panic
        ELSE IF type.r = "Panic" THEN Panic
        ELSE IF is_inline(rec)
        THEN IF hlen < HeaderSize /\ checked THEN Panic
             ELSE ItemOk([type |-> type.v, compression |-> compression.v,
                          disk_bytenr |-> 0,
                          stat |-> [disk |-> (hlen - HeaderSize) % U64,
                                    uncomp |-> ram_bytes,
                                    refd |-> ram_bytes]])
        ELSE IF hlen # FileExtentSize THEN ItemParseErr
        ELSE IF rec.disk_bytenr = 0 THEN ItemHole
        ELSE IF rec.disk_bytenr % 4096 # 0 THEN ItemParseErr
        ELSE ItemOk([type |-> type.v, compression |-> compression.v,
                     disk_bytenr |-> disk_key(rec.disk_bytenr),
                     stat |-> [disk |-> rec.disk_num_bytes,
                               uncomp |-> ram_bytes,
                               refd |-> rec.num_bytes]])

\* What Sv2ItemIter::next and then parse make of a record.
decode(rec, checked) ==
    IF from_le_raw(rec).r = "Panic" THEN Panic ELSE parse(rec, checked)

InitParse ==
    /\ NoAgg
    /\ NoPipeline
    /\ NoExtra
    /\ NoPak
    /\ NoIter
    /\ NoFmt
    /\ \E n \in 0..MaxRecs : r_recs \in [1..n -> RecInputs]
    /\ r_res = <<>>
    /\ r_pc = "run"
    /\ r_out = <<>>
    /\ r_err = FALSE
    /\ r_diag = 0

\* One round of `for extent in iter`: the iterator yields the next record and
\* handle_file matches on extent.parse().
RecStep ==
    /\ r_pc = "run"
    /\ Len(r_res) < Len(r_recs)
    /\ \E checked \in BOOLEAN :
        LET res == decode(r_recs[Len(r_res) + 1], checked)
        IN  /\ r_res' = Append(r_res, res)
            /\ CASE res.r = "Ok" ->
                        /\ r_out' = Append(r_out, res.e)
                        /\ UNCHANGED <<r_pc, r_err, r_diag>>
                 [] res.r = "Hole" ->
                        UNCHANGED <<r_pc, r_out, r_err, r_diag>>
                 [] res.r = "ParseErr" ->
                        LET s == set_err(r_err)
                        IN  /\ r_err' = s.flag
                            /\ IF s.ret = "Ok"
                               THEN r_diag' = r_diag + 1 /\ r_pc' = "break"
                               ELSE r_diag' = r_diag /\ r_pc' = "fail"
                            /\ UNCHANGED r_out
                 [] OTHER ->
                        /\ r_pc' = "panic"
                        /\ UNCHANGED <<r_out, r_err, r_diag>>
    /\ UNCHANGED r_recs
    /\ UNCHANGED recrest

\* The iterator is exhausted: handle_file returns Ok(()).
RecEnd ==
    /\ r_pc = "run"
    /\ Len(r_res) = Len(r_recs)
    /\ r_pc' = "done"
    /\ UNCHANGED <<r_recs, r_res, r_out, r_err, r_diag>>
    /\ UNCHANGED recrest

\* Another Worker fails on its own file and sets the flag.
RecOtherSetErr ==
    /\ r_pc = "run"
    /\ set_err(r_err).ret = "Ok"
    /\ r_err' = set_err(r_err).flag
    /\ UNCHANGED <<r_recs, r_res, r_pc, r_out, r_diag>>
    /\ UNCHANGED recrest

NextParse == RecStep \/ RecEnd \/ RecOtherSetErr

SpecParse == InitParse /\ [][NextParse]_vars

\* ====================================================================
\* SpecIter: Sv2ItemIter over one file, driven by the `for` loop of
\* Worker::handle_file.  Records are counted, not decoded.
\* ====================================================================
MaxIoctl == 3

\* The most files of one batch the Worker of SpecIter is followed through.
MaxIterFiles == 2

\* u32::MAX, scaled to fit the integers of the model checker; no ioctl of
\* the model returns that many records.
U32_MAX == 1000000

\* self.last = self.nrest_item <= 512.
LastThreshold == 512

\* The files of the modelled runs: a file holds n EXTENT_DATA records, record
\* j (counted from 0) at offset j * gap.
FileInputs == [n : {0, 1, 512, 513, 1026, 1538}, gap : {1, 2}]

\* The most records one ioctl returns (what fits the 64 KiB buffer).
CapInputs == {513, 600}

\* header.offset of record j of the file.
OffsetOf(file, j) == j * file.gap

\* The first record of the file with offset >= m.
FirstFrom(file, m) == (m + file.gap - 1) \div file.gap

\* The numbers of records the ioctl can return for key.min_offset = m (the
\* kernel writes the count back to key.nr_items): the records from
\* FirstFrom(file, m) on, all of them or as many as fit the buffer.
Returned(file, m) ==
    LET first == FirstFrom(file, m)
        rem == IF file.n > first THEN file.n - first ELSE 0
    IN  {IF rem < c THEN rem ELSE c : c \in CapInputs}

need_ioctl(nrest_item, last) == nrest_item = 0 /\ ~last

finish(nrest_item, last) == nrest_item = 0 /\ last

\* Mutant: 512 records are not taken as the last chunk.
is_last_lt(nrest_item) == nrest_item < LastThreshold

is_last(nrest_item) == nrest_item <= LastThreshold

\* Mutant: the next search starts at the offset of the record just yielded.
next_min_offset_same(offset) == offset

\* Sv2ItemIter::next: key.min_offset = ret.header.offset + 1.
next_min_offset(offset) == offset + 1

\* tree::r#type::EXTENT_DATA.
EXTENT_DATA == 108

\* The inodes of the files a Worker is handed.
InoInputs == {257, 258}

\* Worker::new: the search key built once for the Worker, the arguments of
\* IoctlSearchKey::new in the order of the fields of the key (u64::MAX is
\* scaled as U64 is).  nr_items is not among the arguments; handle_file
\* overwrites it before the first ioctl.
WorkerKey ==
    [tree_id |-> 0, min_objectid |-> 0, max_objectid |-> 0,
     min_offset |-> 0, max_offset |-> U64 - 1,
     min_transid |-> 0, max_transid |-> U64 - 1,
     min_type |-> EXTENT_DATA, max_type |-> EXTENT_DATA,
     nr_items |-> 0]

\* Worker::handle_file, the two assignments to the key.
set_objectid(key, ino) ==
    [key EXCEPT !.min_objectid = ino, !.max_objectid = ino]

\* Mutant: the search of the next file starts where the previous one ended.
Sv2ItemIter_new_keep_offset(key) == [key EXCEPT !.nr_items = U32_MAX]

\* Sv2ItemIter::new: nr_items and min_offset are reset, no other field is.
Sv2ItemIter_new(key) == [key EXCEPT !.nr_items = U32_MAX, !.min_offset = 0]

\* Worker::new, then Worker::handle_file on the first file up to
\* Sv2ItemIter::new.
InitIter ==
    /\ NoAgg
    /\ NoPipeline
    /\ NoExtra
    /\ NoPak
    /\ NoRec
    /\ NoFmt
    /\ i_pc = "run"
    /\ i_ino \in InoInputs
    /\ i_key = Sv2ItemIter_new(set_objectid(WorkerKey, i_ino))
    /\ i_nfile = 1
    /\ i_left = WorkerKey
    /\ i_pos = 0
    /\ i_nrest = 0
    /\ i_last = FALSE
    /\ i_calls = <<>>
    /\ i_file \in FileInputs

\* What call_ioctl leaves when the ioctl returns n records.
call_ioctl(n) == [nrest_item |-> n, last |-> is_last(n), pos |-> 0]

\* The rest of next() after need_ioctl/call_ioctl: None when finished, else
\* the record at pos is yielded; calls is the history including an ioctl
\* this call of next() has just issued.
NextTail(key, pos, nrest, last, calls) ==
    IF finish(nrest, last)
    THEN /\ i_pc' = "end"
         /\ i_key' = key
         /\ i_pos' = pos
         /\ i_nrest' = nrest
         /\ i_last' = last
         /\ i_calls' = calls
         /\ UNCHANGED <<i_file, i_ino, i_nfile, i_left>>
    ELSE LET c == calls[Len(calls)]
             offset == OffsetOf(i_file, c.first + pos)
         IN  /\ i_pc' = "run"
             /\ i_pos' = pos + 1
             /\ i_nrest' = nrest - 1
             /\ i_last' = last
             /\ i_key' = IF need_ioctl(nrest - 1, last)
                         THEN [key EXCEPT
                                 !.min_offset = next_min_offset(offset),
                                 !.nr_items = U32_MAX]
                         ELSE key
             /\ i_calls' = [calls EXCEPT ![Len(calls)] =
                              [@ EXCEPT !.yielded = @ + 1, !.last_off = offset]]
             /\ UNCHANGED <<i_file, i_ino, i_nfile, i_left>>

\* Sv2ItemIter::next() that needs no ioctl.
IterNext ==
    /\ i_pc = "run"
    /\ ~need_ioctl(i_nrest, i_last)
    /\ NextTail(i_key, i_pos, i_nrest, i_last, i_calls)
    /\ UNCHANGED iterrest

\* Sv2ItemIter::next() that issues an ioctl, which returns n records of the
\* file.
IterNextIoctl ==
    /\ i_pc = "run"
    /\ need_ioctl(i_nrest, i_last)
    /\ Len(i_calls) < MaxIoctl
    /\ \E n \in Returned(i_file, i_key.min_offset) :
        LET r == call_ioctl(n)
            c == [min_offset |-> i_key.min_offset,
                  nr_items |-> i_key.nr_items,
                  key |-> i_key,
                  first |-> FirstFrom(i_file, i_key.min_offset),
                  ret |-> n, yielded |-> 0, last_off |-> -1]
        IN  NextTail([i_key EXCEPT !.nr_items = n], r.pos, r.nrest_item,
                     r.last, Append(i_calls, c))
    /\ UNCHANGED iterrest

\* Sv2ItemIter::next() whose ioctl fails: Some(Err(e)); handle_file breaks.
IterNextErr ==
    /\ i_pc = "run"
    /\ need_ioctl(i_nrest, i_last)
    /\ Len(i_calls) < MaxIoctl
    /\ i_pc' = "err"
    /\ i_calls' = Append(i_calls, [min_offset |-> i_key.min_offset,
                                   nr_items |-> i_key.nr_items,
                                   key |-> i_key,
                                   first |-> 0,
                                   ret |-> -1, yielded |-> 0, last_off |-> -1])
    /\ UNCHANGED <<i_key, i_pos, i_nrest, i_last, i_file, i_ino, i_nfile,
                   i_left>>
    /\ UNCHANGED iterrest

\* handle_file breaks out of the loop on a parse error of the record just
\* yielded: the iterator is dropped.
IterBreak ==
    /\ i_pc = "run"
    /\ i_pos > 0
    /\ i_pc' = "dropped"
    /\ UNCHANGED <<i_key, i_pos, i_nrest, i_last, i_calls, i_file, i_ino,
                   i_nfile, i_left>>
    /\ UNCHANGED iterrest

\* Worker::handle takes the next file of the batch: get_err() finds the
\* flag clear, which it is only when the file before was iterated to its end
\* (an ioctl error or a parse error sets the flag before the break), and
\* handle_file starts on the file with the key the file before left.
IterNewFile ==
    /\ i_pc = "end"
    /\ i_nfile < MaxIterFiles
    /\ \E ino \in InoInputs, file \in FileInputs :
        /\ i_ino' = ino
        /\ i_file' = file
        /\ i_key' = Sv2ItemIter_new(set_objectid(i_key, ino))
    /\ i_nfile' = i_nfile + 1
    /\ i_left' = i_key
    /\ i_pc' = "run"
    /\ i_pos' = 0
    /\ i_nrest' = 0
    /\ i_last' = FALSE
    /\ i_calls' = <<>>
    /\ UNCHANGED iterrest

NextIter ==
    IterNext \/ IterNextIoctl \/ IterNextErr \/ IterBreak \/ IterNewFile

SpecIter == InitIter /\ [][NextIter]_vars

\* ====================================================================
\* SpecFmt: the end of a run.  The Collector channel has closed, the
\* Collector is dropped with the totals it has accumulated and renders them
\* unless the flag is set, and main returns.
\* ====================================================================
MaxFmt == 2

\* An extent of no bytes (ram_bytes = disk_num_bytes = num_bytes = 0).
RegularEmpty == [type |-> "Regular", compression |-> 0, disk_bytenr |-> 3,
                 stat |-> StatDefault]

\* The extents the Collector has received before it is dropped.
FmtExtents == {RegularK1, RegularK1b, InlineZ, PreallocK2, RegularEmpty}

RECURSIVE SumStat(_, _, _)
\* stat.stat.iter().map(|s| s.<field>).sum::<u64>() over classes 0..c.
SumStat(s, field, c) ==
    IF c < 0 THEN 0 ELSE s[c][field] + SumStat(s, field, c - 1)

\* The three totals of CompsizeStatDisplay::fmt.
Totals(st) ==
    [disk |-> st.prealloc.disk + SumStat(st.stat, "disk", 3),
     uncomp |-> st.prealloc.uncomp + SumStat(st.stat, "uncomp", 3),
     refd |-> st.prealloc.refd + SumStat(st.stat, "refd", 3)]

\* Stat::is_empty.
is_empty(s) == s.uncomp = 0

\* Stat::get_percent.
get_percent(s) == (s.disk * 100) \div s.uncomp

RECURSIVE Rows(_, _)
\* The rows of the compression classes c..3 that are not empty.
Rows(st, c) ==
    IF c > 3 THEN <<>>
    ELSE (IF is_empty(st.stat[c]) THEN <<>>
          ELSE <<[ty |-> c, perc |-> get_percent(st.stat[c]),
                  stat |-> st.stat[c]]>>)
         \o Rows(st, c + 1)

\* CompsizeStatDisplay::fmt: the lines written, and whether the division
\* total_disk * 100 / total_uncomp panicked after the two header lines.
fmt(st) ==
    LET head == << [ty |-> "Processed", nfile |-> st.nfile,
                    nextent |-> st.nextent, nref |-> st.nref,
                    ninline |-> st.ninline],
                   [ty |-> "Type"] >>
        t == Totals(st)
    IN  IF t.uncomp = 0 THEN [r |-> "Panic", out |-> head]
        ELSE [r |-> "Ok",
              out |-> head
                      \o <<[ty |-> "TOTAL",
                            perc |-> (t.disk * 100) \div t.uncomp,
                            stat |-> t]>>
                      \o Rows(st, 0)
                      \o (IF is_empty(st.prealloc) THEN <<>>
                          ELSE <<[ty |-> "Prealloc",
                                  perc |-> get_percent(st.prealloc),
                                  stat |-> st.prealloc]>>)]

\* The Collector has handled up to MaxFmt extents and NFile messages summing
\* to up to MaxNFile, and its channel has closed.
InitFmt ==
    /\ NoPipeline
    /\ NoExtra
    /\ NoPak
    /\ NoRec
    /\ NoIter
    /\ inserted = <<>>
    /\ nfile_recv = <<>>
    /\ \E n \in 0..MaxFmt : \E h \in [1..n -> FmtExtents] :
       \E nf \in 0..MaxNFile :
          LET r == insert_all(CompsizeStatDefault, {}, h)
          IN  /\ stat = [r.stat EXCEPT !.nfile = nf]
              /\ extent_map = r.map
    /\ f_pc = "run"
    /\ f_err \in BOOLEAN
    /\ f_stdout = <<>>
    /\ f_stderr = <<>>
    /\ f_exit = -1

\* Drop for Collector: if get_err().is_ok(), self.stat.fmt(stdout(), scale)
\* .unwrap().  A panic in it unwinds main, which runs the Collector inside
\* block_on: the process ends with code 101, and the header lines written
\* before the division have reached stdout or not, as the writer buffers.
FmtCollectorDrop ==
    /\ f_pc = "run"
    /\ IF collector_drop(f_err)
       THEN LET r == fmt(stat)
            IN  IF r.r = "Ok"
                THEN /\ f_stdout' = r.out
                     /\ f_pc' = "done"
                     /\ UNCHANGED <<f_stderr, f_exit>>
                ELSE /\ f_stdout' \in {<<>>, r.out}
                     /\ f_stderr' = <<"panic">>
                     /\ f_pc' = "panic"
                     /\ f_exit' = 101
       ELSE /\ f_pc' = "done"
            /\ UNCHANGED <<f_stdout, f_stderr, f_exit>>
    /\ UNCHANGED f_err
    /\ UNCHANGED fmtrest

\* The end of main after block_on(collector.run(r)).
FmtMainExit ==
    /\ f_pc = "done"
    /\ f_pc' = "exited"
    /\ f_exit' = exit_status(f_err)
    /\ UNCHANGED <<f_err, f_stdout, f_stderr>>
    /\ UNCHANGED fmtrest

NextFmt == FmtCollectorDrop \/ FmtMainExit

SpecFmt == InitFmt /\ [][NextFmt]_vars

\* ====================================================================
\* SpecCli: the start of the process, from the command line to block_on:
\* Config::from_args (behind config()), WalkDir::spawn and the loop of main
\* that spawns the Workers.
\* ====================================================================
\* Largest number of options on a modelled command line.
MaxOpts == 2

\* The options getopt recognises, with the values given to -j ("none": the
\* value is missing).
OptInputs ==
    [id : {"b", "x", "h"}, value : {"none"}]
    \cup [id : {"j"}, value : {"none", "0", "1", "2", "abc", "256"}]

\* The modelled command lines: the recognised options in order, whether an
\* unknown option is present, and whether a path is given.
ArgvInputs ==
    [opts : UNION {[1..n -> OptInputs] : n \in 0..MaxOpts},
     unknown : BOOLEAN, other : BOOLEAN]

RECURSIVE options_loop(_, _, _)
\* The loop of Config::from_args over the recognised options
\* (global.rs:66-86).  opt.value.and_then(|n| n.parse().ok()) yields a u8
\* for "0", "1", "2" and None for a missing value, "abc" and "256".
options_loop(opts, cfg, errs) ==
    IF opts = <<>> THEN [r |-> "Ok", cfg |-> cfg, stderr |-> errs]
    ELSE LET o == Head(opts)
             arg_jobs == CASE o.value = "0" -> 0
                           [] o.value = "1" -> 1
                           [] o.value = "2" -> 2
                           [] OTHER -> -1
         IN  CASE o.id = "b" ->
                    options_loop(Tail(opts), [cfg EXCEPT !.bytes = TRUE], errs)
               [] o.id = "x" ->
                    options_loop(Tail(opts), [cfg EXCEPT !.one_fs = TRUE], errs)
               [] o.id = "j" ->
                    IF arg_jobs = -1
                    THEN [r |-> "Exit", code |-> 1,
                          stderr |-> Append(errs, "-j requires an integer option")]
                    ELSE options_loop(
                             Tail(opts), [cfg EXCEPT !.jobs = arg_jobs],
                             IF arg_jobs = 0
                             THEN Append(errs, "-j requires an non-zero integer")
                             ELSE errs)
               [] OTHER ->
                    [r |-> "Exit", code |-> 0, stderr |-> Append(errs, "help")]

\* Config::from_args: an unknown option ends the process first; then the
\* options in order; then the paths, of which there must be one.
from_args(argv, cfg) ==
    IF argv.unknown
    THEN [r |-> "Exit", code |-> 1, stderr |-> <<"unrecognized option">>]
    ELSE LET l == options_loop(argv.opts, cfg, <<>>)
         IN  IF l.r = "Exit" THEN l
             ELSE IF ~argv.other
                  THEN [r |-> "Exit", code |-> 1,
                        stderr |-> Append(l.stderr, "help")]
                  ELSE l

\* The process as main is entered; jobs holds nthreads(), the number of
\* physical CPUs, until from_args has run.
InitCli ==
    /\ NoAgg
    /\ NoPipeline
    /\ NoPak
    /\ NoRec
    /\ NoIter
    /\ NoFmt
    /\ NoExec
    /\ NoShot
    /\ NoAct
    /\ o_pc = "config"
    /\ o_argv \in ArgvInputs
    /\ o_cfg \in [jobs : {1, 2}, one_fs : {FALSE}, bytes : {FALSE}]
    /\ o_stderr = <<>>
    /\ o_exit = -1
    /\ o_made = [walkers |-> 0, workers |-> 0, threads |-> 0]

\* main: let nworkers = config().jobs, the first use of config(), runs
\* Config::from_args.
MainConfig ==
    /\ o_pc = "config"
    /\ LET c == from_args(o_argv, o_cfg)
       IN  /\ o_stderr' = c.stderr
           /\ IF c.r = "Exit"
              THEN /\ o_pc' = "exited"
                   /\ o_exit' = c.code
                   /\ UNCHANGED o_cfg
              ELSE /\ o_pc' = "walkdir"
                   /\ o_cfg' = c.cfg
                   /\ UNCHANGED o_exit
    /\ UNCHANGED <<o_argv, o_made>>
    /\ UNCHANGED clirest

\* main: WalkDir::spawn(fcb, &config().args, nworkers).  assert_ne!(nwalker,
\* 0) panics in the main thread before anything is spawned: the process ends
\* with status 101, or is aborted (134) if the build aborts on panic.
\* Otherwise the first spawn builds the executor with jobs - 1 threads, and
\* the Director and nwalker Walkers are spawned.
MainWalkDirSpawn ==
    /\ o_pc = "walkdir"
    /\ IF o_cfg.jobs = 0
       THEN /\ o_pc' = "exited"
            /\ o_exit' \in {101, 134}
            /\ o_stderr' = Append(o_stderr, "panic")
            /\ UNCHANGED o_made
       ELSE /\ o_pc' = "workers"
            /\ o_made' = [o_made EXCEPT !.walkers = o_cfg.jobs,
                                        !.threads = o_cfg.jobs - 1]
            /\ UNCHANGED <<o_exit, o_stderr>>
    /\ UNCHANGED <<o_argv, o_cfg>>
    /\ UNCHANGED clirest

\* main: for _ in 0..nworkers { spawn(worker.run(..)) }; then block_on.
MainSpawnWorkers ==
    /\ o_pc = "workers"
    /\ o_pc' = "block_on"
    /\ o_made' = [o_made EXCEPT !.workers = o_cfg.jobs]
    /\ UNCHANGED <<o_argv, o_cfg, o_stderr, o_exit>>
    /\ UNCHANGED clirest

NextCli == MainConfig \/ MainWalkDirSpawn \/ MainSpawnWorkers

SpecCli == InitCli /\ [][NextCli]_vars

\* ====================================================================
\* SpecExec: block_on with jobs = 1.  The executor has no thread of its own;
\* the main thread polls the Collector's future and, when that is pending,
\* runs the queued Runnables.  The spawned tasks stand for the producers of
\* the pipeline: each sends its messages to the Collector's bounded channel,
\* suspends when the channel is full, and drops its sender at the end, some
\* after spawning a task that sends one more message (as Drop for Worker
\* does).
\* ====================================================================
\* Largest number of tasks spawned before block_on.
MaxTasks == 2

\* Largest number of messages one task sends.
MaxMsgs == 40

\* Capacity of the Collector's channel in SpecExec (bounded(64)), scaled
\* down.
ExecChanCap == 1

\* if cnt >= 32 { cnt = 0; park(); }
ParkThreshold == 32

\* The tasks spawned before block_on: how many messages each sends and
\* whether it spawns a flush task when it ends.
TaskInputs ==
    UNION {[1..n -> [pc : {"queued"}, left : {0, 1, MaxMsgs},
                     flush : BOOLEAN]] : n \in 1..MaxTasks}

\* Executor::new(config().jobs - 1): the number of worker threads.
global_threads(j) == j - 1

\* Mutant: waking the waker of block_on does not unpark the main thread.
wake_lost(registered, token) == token

\* ThreadWaker::wake through a waker a channel holds: unpark sets the park
\* token of the main thread.
wake(registered, token) == registered \/ token

\* Executor::schedule for the tasks ts: the Runnables are sent on the
\* executor's channel, which wakes the recv of block_on's loop if it waits.
schedule(ts) ==
    /\ x_queue' = x_queue \o ts
    /\ x_q_wait' = (x_q_wait /\ ts = <<>>)

\* block_on is entered by the main thread: the tasks are spawned and queued,
\* each holding a sender of the Collector's channel.
InitExec ==
    /\ NoAgg
    /\ NoPipeline
    /\ NoPak
    /\ NoRec
    /\ NoIter
    /\ NoFmt
    /\ NoCli
    /\ NoShot
    /\ NoAct
    /\ x_mpc = "fut"
    /\ x_threads = global_threads(1)
    /\ x_tasks \in TaskInputs
    /\ x_queue = [k \in 1..Len(x_tasks) |-> k]
    /\ x_chan = 0
    /\ x_senders = Len(x_tasks)
    /\ x_send_wait = <<>>
    /\ x_recv_wait = FALSE
    /\ x_q_wait = FALSE
    /\ x_token = FALSE
    /\ x_cnt = 0
    /\ x_recvd = 0
    /\ x_parks = 0

\* f.poll: the Collector's future is polled first.  It handles the messages
\* of the channel, each recv waking the oldest suspended sender, whose task
\* is scheduled; then it is Ready if the channel is closed, else its recv
\* registers the waker and the loop future is polled.
ExecPollCollector ==
    /\ x_mpc = "fut"
    /\ LET n == IF Len(x_send_wait) < x_chan THEN Len(x_send_wait) ELSE x_chan
           woken == SubSeq(x_send_wait, 1, n)
       IN  /\ x_recvd' = x_recvd + x_chan
           /\ x_chan' = 0
           /\ x_send_wait' = SubSeq(x_send_wait, n + 1, Len(x_send_wait))
           /\ schedule(woken)
           /\ x_token' = wake(x_q_wait /\ woken # <<>>, x_token)
           /\ x_tasks' = [k \in 1..Len(x_tasks) |->
                             IF k \in Range(woken)
                             THEN [x_tasks[k] EXCEPT !.pc = "queued"]
                             ELSE x_tasks[k]]
    /\ IF x_senders = 0
       THEN x_mpc' = "done" /\ UNCHANGED x_recv_wait
       ELSE x_mpc' = "loop" /\ x_recv_wait' = TRUE
    /\ UNCHANGED <<x_threads, x_senders, x_cnt, x_parks>>
    /\ UNCHANGED execrest

\* The loop future of block_on: recv().await yields a Runnable and r.run()
\* polls its task once.  The task sends while the channel has room; it
\* suspends with messages left, or ends: it drops its sender, after handing
\* a clone to a spawned flush task if it has one to spawn.  A send, and the
\* drop of the last sender, wake the Collector's recv.
ExecRunTask ==
    /\ x_mpc = "loop"
    /\ x_queue # <<>>
    /\ LET t == Head(x_queue)
           room == ExecChanCap - x_chan
           left == x_tasks[t].left
           n == IF left < room THEN left ELSE room
           ends == left = n
           spawns == ends /\ x_tasks[t].flush
           new == IF spawns THEN <<Len(x_tasks) + 1>> ELSE <<>>
           closes == ends /\ ~spawns /\ x_senders = 1
       IN  /\ x_chan' = x_chan + n
           /\ x_tasks' = [x_tasks EXCEPT ![t] =
                             [pc |-> IF ends THEN "done" ELSE "suspended",
                              left |-> left - n,
                              flush |-> x_tasks[t].flush /\ ~ends]]
                         \o (IF spawns
                             THEN <<[pc |-> "queued", left |-> 1,
                                     flush |-> FALSE]>>
                             ELSE <<>>)
           /\ x_send_wait' = IF ends THEN x_send_wait
                             ELSE Append(x_send_wait, t)
           /\ x_senders' = IF ends /\ ~spawns THEN x_senders - 1 ELSE x_senders
           /\ x_queue' = Tail(x_queue) \o new
           /\ x_q_wait' = FALSE
           /\ x_token' = wake(x_recv_wait /\ (n > 0 \/ closes), x_token)
           /\ x_recv_wait' = (x_recv_wait /\ ~(n > 0 \/ closes))
    /\ UNCHANGED <<x_mpc, x_threads, x_cnt, x_recvd, x_parks>>
    /\ UNCHANGED execrest

\* The loop future finds the executor's channel empty: its recv registers
\* the waker and the poll of f returns Pending.
ExecLoopPending ==
    /\ x_mpc = "loop"
    /\ x_queue = <<>>
    /\ x_q_wait' = TRUE
    /\ x_mpc' = "pending"
    /\ UNCHANGED <<x_threads, x_queue, x_tasks, x_chan, x_senders,
                   x_send_wait, x_recv_wait, x_token, x_cnt, x_recvd, x_parks>>
    /\ UNCHANGED execrest

\* Poll::Pending in block_on: cnt += 1, and at ParkThreshold the thread
\* parks; else f is polled again.
ExecPending ==
    /\ x_mpc = "pending"
    /\ IF x_cnt + 1 >= ParkThreshold
       THEN x_cnt' = 0 /\ x_mpc' = "parked"
       ELSE x_cnt' = x_cnt + 1 /\ x_mpc' = "fut"
    /\ UNCHANGED <<x_threads, x_queue, x_tasks, x_chan, x_senders,
                   x_send_wait, x_recv_wait, x_q_wait, x_token, x_recvd,
                   x_parks>>
    /\ UNCHANGED execrest

\* park() returns once the token is set, and consumes it; no other thread
\* exists that could set it later.
ExecUnpark ==
    /\ x_mpc = "parked"
    /\ x_token
    /\ x_token' = FALSE
    /\ x_mpc' = "fut"
    /\ x_parks' = x_parks + 1
    /\ UNCHANGED <<x_threads, x_queue, x_tasks, x_chan, x_senders,
                   x_send_wait, x_recv_wait, x_q_wait, x_cnt, x_recvd>>
    /\ UNCHANGED execrest

NextExec ==
    \/ ExecPollCollector
    \/ ExecRunTask
    \/ ExecLoopPending
    \/ ExecPending
    \/ ExecUnpark

SpecExec == InitExec /\ [][NextExec]_vars

\* The main thread takes its next step whenever it has one.
FairExec == SpecExec /\ WF_vars(NextExec)

\* ====================================================================
\* SpecShot: one oneshot channel.  The Sender is used by one task and the
\* Receiver is polled by another; each call locks the Mutex of the channel
\* and then runs put_msg or get_msg on its Inner.
\* ====================================================================
\* Largest number of polls of the Receiver.
MaxPolls == 4

\* The messages send may be called with.
MsgInputs == {1, 2, 3}

\* The wakers a poll may carry.
WakerInputs == {1, 2}

\* enum Inner<T> { Idle, Sent(T), ReceiverWaiting(Waker), Closed }
Idle == [tag |-> "Idle", val |-> 0]

Sent(msg) == [tag |-> "Sent", val |-> msg]

ReceiverWaiting(waker) == [tag |-> "ReceiverWaiting", val |-> waker]

Closed == [tag |-> "Closed", val |-> 0]

\* Inner::put_msg: the value returned, the new Inner, the wakers woken, and
\* whether the unreachable! branch was executed.
put_msg(self, msg) ==
    CASE self.tag = "Idle" ->
             [ret |-> "Ok", val |-> 0, inner |-> Sent(msg), wake |-> <<>>,
              panic |-> FALSE]
      [] self.tag = "Sent" ->
             [ret |-> "none", val |-> 0, inner |-> self, wake |-> <<>>,
              panic |-> TRUE]
      [] self.tag = "ReceiverWaiting" ->
             [ret |-> "Ok", val |-> 0, inner |-> Sent(msg),
              wake |-> <<self.val>>, panic |-> FALSE]
      [] self.tag = "Closed" ->
             [ret |-> "Err", val |-> msg, inner |-> Closed, wake |-> <<>>,
              panic |-> FALSE]

\* Inner::get_msg: Ok(None) is "None", Ok(Some(msg)) is "Some", Err(()) is
\* "Err".
get_msg(self, waker) ==
    CASE self.tag = "Idle" ->
             [ret |-> "None", val |-> 0, inner |-> ReceiverWaiting(waker),
              panic |-> FALSE]
      [] self.tag = "Sent" ->
             [ret |-> "Some", val |-> self.val, inner |-> Closed,
              panic |-> FALSE]
      [] self.tag = "ReceiverWaiting" ->
             [ret |-> "none", val |-> 0, inner |-> self, panic |-> TRUE]
      [] self.tag = "Closed" ->
             [ret |-> "Err", val |-> 0, inner |-> Closed, panic |-> FALSE]

\* Receiver::poll: Pending for Ok(None), else Ready(msg.map(|m| m.unwrap())).
poll_ret(msg) ==
    IF msg.ret = "None"
    THEN [op |-> "poll", ret |-> "Pending", val |-> 0]
    ELSE IF msg.ret = "Some"
         THEN [op |-> "poll", ret |-> "ReadyOk", val |-> msg.val]
         ELSE [op |-> "poll", ret |-> "ReadyErr", val |-> 0]

\* A channel whose Inner is Idle, with its Sender and its Receiver.
InitShot ==
    /\ NoAgg
    /\ NoPipeline
    /\ NoPak
    /\ NoRec
    /\ NoIter
    /\ NoFmt
    /\ NoCli
    /\ NoExec
    /\ NoAct
    /\ s_pc = "run"
    /\ s_inner = Idle
    /\ s_sender = TRUE
    /\ s_lock = "free"
    /\ s_msg \in MsgInputs
    /\ s_waker = 0
    /\ s_polls = 0
    /\ s_rets = <<>>
    /\ s_wakes = <<>>
    /\ s_hit = "none"

\* Sender::send(self, message): self is consumed and the Mutex is locked.
SendLock ==
    /\ s_pc = "run"
    /\ s_sender
    /\ s_lock = "free"
    /\ s_sender' = FALSE
    /\ s_lock' = "send"
    /\ UNCHANGED <<s_pc, s_inner, s_msg, s_waker, s_polls, s_rets, s_wakes,
                   s_hit>>
    /\ UNCHANGED shotrest

\* Sender::send: put_msg under the lock.  A panic inside
\* replace_with_or_abort_and_return aborts the process.
SendPut ==
    /\ s_pc = "run"
    /\ s_lock = "send"
    /\ LET r == put_msg(s_inner, s_msg)
       IN  IF r.panic
           THEN /\ s_pc' = "aborted"
                /\ s_hit' = "put_msg"
                /\ UNCHANGED <<s_inner, s_lock, s_rets, s_wakes>>
           ELSE /\ s_inner' = r.inner
                /\ s_wakes' = s_wakes \o r.wake
                /\ s_rets' = Append(s_rets, [op |-> "send", ret |-> r.ret,
                                             val |-> r.val])
                /\ s_lock' = "free"
                /\ UNCHANGED <<s_pc, s_hit>>
    /\ UNCHANGED <<s_sender, s_msg, s_waker, s_polls>>
    /\ UNCHANGED shotrest

\* Receiver::poll(cx): the Mutex is locked; cx.waker() is some waker.
PollLock ==
    /\ s_pc = "run"
    /\ s_lock = "free"
    /\ s_polls < MaxPolls
    /\ \E w \in WakerInputs : s_waker' = w
    /\ s_lock' = "poll"
    /\ s_polls' = s_polls + 1
    /\ UNCHANGED <<s_pc, s_inner, s_sender, s_msg, s_rets, s_wakes, s_hit>>
    /\ UNCHANGED shotrest

\* Receiver::poll: get_msg under the lock, then the value of the poll.
PollGet ==
    /\ s_pc = "run"
    /\ s_lock = "poll"
    /\ LET r == get_msg(s_inner, s_waker)
       IN  IF r.panic
           THEN /\ s_pc' = "aborted"
                /\ s_hit' = "get_msg"
                /\ UNCHANGED <<s_inner, s_lock, s_rets, s_waker>>
           ELSE /\ s_inner' = r.inner
                /\ s_rets' = Append(s_rets, poll_ret(r))
                /\ s_lock' = "free"
                /\ s_waker' = 0
                /\ UNCHANGED <<s_pc, s_hit>>
    /\ UNCHANGED <<s_sender, s_msg, s_polls, s_wakes>>
    /\ UNCHANGED shotrest

NextShot == SendLock \/ SendPut \/ PollLock \/ PollGet

SpecShot == InitShot /\ [][NextShot]_vars

\* ====================================================================
\* SpecAct: the actors of one run_one_actor, run_n_actor or block_on: they
\* share one channel, whose Sender lives in an Arc.  Each run_actor holds an
\* Addr until on_start has returned; the Context of an actor holds a Weak.
\* ====================================================================
\* Largest n of run_n_actor.
MaxActors == 2

\* Largest number of Addr clones held outside the actors.
MaxAddrs == 2

\* Largest number of messages sent to the actors.
MaxActMsgs == 2

\* Largest number of Addr an actor keeps of those ctx.addr() gave it.
MaxKept == 1

\* The Addr held outside the actors at the start: the one run_one_actor and
\* run_n_actor return, none for block_on.
ExtInputs == {0, 1}

Actors == 1..Len(a_pc)

\* The sum of the elements of a sequence of numbers.
RECURSIVE SumTo(_, _)
SumTo(f, n) == IF n = 0 THEN 0 ELSE f[n] + SumTo(f, n - 1)

SumSeq(s) == SumTo(s, Len(s))

\* Arc::strong_count of the Sender: every Addr holds one, a Weak holds none.
strong_count(own, kept, ext) == SumSeq(own) + SumSeq(kept) + ext

\* Weak::upgrade in Context::addr: Some(Addr) while a strong reference is left.
upgrade(strong) == strong > 0

\* Mutant: run_actor keeps its Addr after on_start.
drop_addr_kept(own) == own

\* drop(addr) in run_actor.
drop_addr(own) == own - 1

\* run_one_actor (n = 1, ext = 1), run_n_actor (ext = 1) or block_on (n = 1,
\* ext = 0): the channel is empty and every run_actor is given an Addr.
InitAct ==
    /\ NoAgg
    /\ NoPipeline
    /\ NoPak
    /\ NoRec
    /\ NoIter
    /\ NoFmt
    /\ NoCli
    /\ NoExec
    /\ NoShot
    /\ \E n \in 1..MaxActors :
           /\ a_pc = [i \in 1..n |-> "start"]
           /\ a_own = [i \in 1..n |-> 1]
           /\ a_kept = [i \in 1..n |-> 0]
           /\ a_cur = [i \in 1..n |-> 0]
           /\ a_exits = [i \in 1..n |-> 0]
           /\ a_ext \in (IF n = 1 THEN ExtInputs ELSE {1})
    /\ a_queue = <<>>
    /\ a_sent = 0
    /\ a_handled = <<>>
    /\ a_none = FALSE

\* What an actor's code does with its Context: nothing, ctx.addr() whose
\* Addr it drops or keeps, or the drop of an Addr it kept.  ctx.addr() is
\* None once no strong reference is left.
ctx_use(i, own) ==
    \E use \in {"none", "addr", "addr_keep", "drop"} :
        LET some == upgrade(strong_count(own, a_kept, a_ext))
        IN  /\ use = "addr_keep" => a_kept[i] < MaxKept
            /\ use = "drop" => a_kept[i] > 0
            /\ a_kept' = IF use = "addr_keep" /\ some
                         THEN [a_kept EXCEPT ![i] = @ + 1]
                         ELSE IF use = "drop"
                              THEN [a_kept EXCEPT ![i] = @ - 1]
                              ELSE a_kept
            /\ a_none' = (a_none \/ (use \in {"addr", "addr_keep"} /\ ~some))

\* run_actor up to the first recv: the Context is built from a Weak, on_start
\* runs, and the Addr is dropped.
ActOnStart(i) ==
    /\ a_pc[i] = "start"
    /\ ctx_use(i, a_own)
    /\ a_own' = [a_own EXCEPT ![i] = drop_addr(@)]
    /\ a_pc' = [a_pc EXCEPT ![i] = "recv"]
    /\ UNCHANGED <<a_ext, a_queue, a_cur, a_sent, a_handled, a_exits>>
    /\ UNCHANGED actrest

\* receiver.recv().await yields the oldest message.
ActRecv(i) ==
    /\ a_pc[i] = "recv"
    /\ a_queue # <<>>
    /\ a_cur' = [a_cur EXCEPT ![i] = Head(a_queue)]
    /\ a_queue' = Tail(a_queue)
    /\ a_pc' = [a_pc EXCEPT ![i] = "handle"]
    /\ UNCHANGED <<a_own, a_kept, a_ext, a_sent, a_handled, a_exits, a_none>>
    /\ UNCHANGED actrest

\* actor.handle(&mut ctx, msg).await, then the next recv.
ActHandle(i) ==
    /\ a_pc[i] = "handle"
    /\ ctx_use(i, a_own)
    /\ a_handled' = Append(a_handled, [actor |-> i, msg |-> a_cur[i]])
    /\ a_cur' = [a_cur EXCEPT ![i] = 0]
    /\ a_pc' = [a_pc EXCEPT ![i] = "recv"]
    /\ UNCHANGED <<a_own, a_ext, a_queue, a_sent, a_exits>>
    /\ UNCHANGED actrest

\* receiver.recv().await is Err: the channel is empty and closed, which it
\* is once the Arc has dropped the Sender.
ActClosed(i) ==
    /\ a_pc[i] = "recv"
    /\ a_queue = <<>>
    /\ strong_count(a_own, a_kept, a_ext) = 0
    /\ a_pc' = [a_pc EXCEPT ![i] = "exit"]
    /\ UNCHANGED <<a_own, a_kept, a_ext, a_queue, a_cur, a_sent, a_handled,
                   a_exits, a_none>>
    /\ UNCHANGED actrest

\* actor.on_exit(&mut ctx).await, the value of run_actor.
ActOnExit(i) ==
    /\ a_pc[i] = "exit"
    /\ ctx_use(i, a_own)
    /\ a_exits' = [a_exits EXCEPT ![i] = @ + 1]
    /\ a_pc' = [a_pc EXCEPT ![i] = "done"]
    /\ UNCHANGED <<a_own, a_ext, a_queue, a_cur, a_sent, a_handled>>
    /\ UNCHANGED actrest

\* Clone for Addr, by a holder outside the actors.
AddrClone ==
    /\ a_ext > 0
    /\ a_ext < MaxAddrs
    /\ a_ext' = a_ext + 1
    /\ UNCHANGED <<a_pc, a_own, a_kept, a_queue, a_cur, a_sent, a_handled,
                   a_exits, a_none>>
    /\ UNCHANGED actrest

\* An Addr held outside the actors is dropped.
AddrDrop ==
    /\ a_ext > 0
    /\ a_ext' = a_ext - 1
    /\ UNCHANGED <<a_pc, a_own, a_kept, a_queue, a_cur, a_sent, a_handled,
                   a_exits, a_none>>
    /\ UNCHANGED actrest

\* Addr::send by a holder of an Addr, outside the actors or an actor that
\* kept one: the channel is unbounded.
AddrSend ==
    /\ a_ext + SumSeq(a_kept) > 0
    /\ a_sent < MaxActMsgs
    /\ a_sent' = a_sent + 1
    /\ a_queue' = Append(a_queue, a_sent + 1)
    /\ UNCHANGED <<a_pc, a_own, a_kept, a_ext, a_cur, a_handled, a_exits,
                   a_none>>
    /\ UNCHANGED actrest

ActorStep(i) ==
    \/ ActOnStart(i)
    \/ ActRecv(i)
    \/ ActHandle(i)
    \/ ActClosed(i)
    \/ ActOnExit(i)

NextAct ==
    \/ \E i \in Actors : ActOnStart(i)
    \/ \E i \in Actors : ActRecv(i)
    \/ \E i \in Actors : ActHandle(i)
    \/ \E i \in Actors : ActClosed(i)
    \/ \E i \in Actors : ActOnExit(i)
    \/ AddrClone
    \/ AddrDrop
    \/ AddrSend

SpecAct == InitAct /\ [][NextAct]_vars

\* Every spawned run_actor takes its next step whenever it has one.
FairAct ==
    SpecAct /\ \A i \in 1..MaxActors : WF_vars(i \in Actors /\ ActorStep(i))

\* ------------------------------------------------------- claims C1, C2, C3
\* The bucket an extent is accounted in: its compression class, 4 for prealloc.
BucketOf(e) == IF e.type = "Prealloc" THEN 4 ELSE e.compression

BucketStat(b) == IF b = 4 THEN stat.prealloc ELSE stat.stat[b]

\* h[i] is the first Regular or Prealloc element of h with its disk key.
FirstOfKey(h, i) ==
    /\ h[i].type # "Inline"
    /\ \A j \in 1..(i - 1) :
           h[j].type = "Inline" \/ h[j].disk_bytenr # h[i].disk_bytenr

\* What the claim says bucket b holds after the elements of h.
ExpectedStat(h, b) ==
    [disk |-> SumSeq([i \in 1..Len(h) |->
                 IF BucketOf(h[i]) = b /\ (h[i].type = "Inline" \/ FirstOfKey(h, i))
                 THEN h[i].stat.disk ELSE 0]),
     uncomp |-> SumSeq([i \in 1..Len(h) |->
                 IF BucketOf(h[i]) = b /\ (h[i].type = "Inline" \/ FirstOfKey(h, i))
                 THEN h[i].stat.uncomp ELSE 0]),
     refd |-> SumSeq([i \in 1..Len(h) |->
                 IF BucketOf(h[i]) = b THEN h[i].stat.refd ELSE 0])]

\* C1: after any sequence of inserted extents, every bucket holds the disk and
\* uncomp of each Inline element and of the first Regular/Prealloc element of
\* each disk key (exactly one element per key), and the refd of every element.
C1_DedupTotals ==
    \A b \in 0..4 : BucketStat(b) = ExpectedStat(inserted, b)

\* C1 witness: a disk key inserted twice, first Regular then Prealloc, with
\* different disk bytes.
C1_Witness ==
    \E i, j \in 1..Len(inserted) :
        /\ i < j
        /\ inserted[i].type = "Regular"
        /\ inserted[j].type = "Prealloc"
        /\ inserted[i].disk_bytenr = inserted[j].disk_bytenr
        /\ inserted[i].stat.disk # inserted[j].stat.disk

\* C2: after every message, nextent = |seen| = number of distinct disk keys of
\* the Regular/Prealloc extents inserted, nref = number of Regular/Prealloc
\* extents, ninline = number of Inline extents, nfile = sum of the NFile values.
C2_Counters ==
    LET refs == {i \in 1..Len(inserted) : inserted[i].type # "Inline"}
        inl == {i \in 1..Len(inserted) : inserted[i].type = "Inline"}
    IN  /\ stat.nextent = Cardinality(extent_map)
        /\ extent_map = {inserted[i].disk_bytenr : i \in refs}
        /\ stat.nref = Cardinality(refs)
        /\ stat.ninline = Cardinality(inl)
        /\ stat.nfile = SumSeq(nfile_recv)

\* C2 witness: two references of one extent and a non-zero NFile received.
C2_Witness ==
    /\ stat.nref = 2
    /\ stat.nextent = 1
    /\ stat.nfile > 0

Perms(n) == {p \in [1..n -> 1..n] : \A i, j \in 1..n : p[i] = p[j] => i = j}

Permute(h, p) == [i \in 1..Len(h) |-> h[p[i]]]

\* aggregate(E): E inserted into a fresh Collector.
Aggregate(h) == insert_all(CompsizeStatDefault, {}, h).stat

KeyConsistent(h) ==
    \A i, j \in 1..Len(h) :
        (h[i].type # "Inline" /\ h[j].type # "Inline"
         /\ h[i].disk_bytenr = h[j].disk_bytenr)
        => /\ h[i].type = h[j].type
           /\ h[i].compression = h[j].compression
           /\ h[i].stat.disk = h[j].stat.disk
           /\ h[i].stat.uncomp = h[j].stat.uncomp

NoError == failing = {} /\ noopen = NoneFails

RECURSIVE CrawlFiles(_, _)
\* The regular files of the tree rooted at d, not descending into a directory
\* of another device than its parent when x is set.
CrawlFiles(d, x) ==
    Range(FilesOf(d))
    \cup UNION {CrawlFiles(s, x) :
                  s \in {t \in Range(SubDirsOf(d)) : ~x \/ get_dev(t) = get_dev(d)}}

CrawledFiles(a, x) ==
    Range(a.files) \cup UNION {CrawlFiles(d, x) : d \in Range(a.dirs)}

\* C4 as stated: in a run with no error, when the Collector finishes, nfile
\* is the number of regular files given or lying in the trees given, and
\* handle_file has started each of them exactly once and no other file.
C4_NFileAllFiles ==
    (cpc = "done" /\ NoError) =>
        /\ stat.nfile = Cardinality(AllFiles(args))
        /\ \A f \in Files :
              started[f] = IF f \in AllFiles(args) THEN 1 ELSE 0

\* C4, amended: in a run with no error, when the Collector finishes, nfile is
\* the number of regular files given or lying in the trees given, not
\* counting, when -x is set, the files under a directory whose device differs
\* from its parent's; handle_file has started each of these files exactly
\* once, in exactly one Worker, and no other file.
C4_NFileCrawledFiles ==
    (cpc = "done" /\ NoError) =>
        /\ stat.nfile = Cardinality(CrawledFiles(args, one_fs))
        /\ k_nfile[0] + k_nfile[1] = stat.nfile
        /\ \A f \in Files :
              started[f] = IF f \in CrawledFiles(args, one_fs) THEN 1 ELSE 0

\* A run over the tree of directory 1 and file 4 with two Workers that both
\* handled files, finished with all four files counted.
C4_Witness ==
    /\ cpc = "done"
    /\ NoError
    /\ jobs = 2
    /\ ~one_fs
    /\ args.dirs = <<1>>
    /\ k_nfile[0] > 0
    /\ k_nfile[1] > 0
    /\ stat.nfile = 4

WithWalkers == args.dirs # <<>>
WalkersDone == \A i \in WalkerIds : wpc[i] = "done"
WorkersDone == \A k \in WorkerIds : kpc[k] = "done"

\* The order of the shutdown of a run with no error: a Walker exits only
\* after job_balance found the job list empty with every Walker idle and
\* closed the channels, a Worker only once the Worker channel is closed and
\* drained, the Collector only once its channel is closed and drained, and
\* the statistics are written when the Collector ends, never twice.
C5_Order ==
    (NoError /\ WithWalkers) =>
        /\ closed_idle =>
              /\ walkers = {}
              /\ global_joblist = EmptyJobs
              /\ \A i \in WalkerIds : wpc[i] \in {"idle", "done"}
        /\ (\E i \in 0..(jobs - 1) : wpc[i] = "done") => closed_idle
        /\ (\E k \in 0..(jobs - 1) : kpc[k] = "done") =>
              WalkersDone /\ WorkerChanClosed
        /\ cpc = "done" => WorkersDone /\ CollectorChanClosed
        /\ rendered = IF cpc = "done" THEN 1 ELSE 0

C6_NoDeadlock ==
    /\ Running => ENABLED Next
    /\ dpc = "send" => wpc[d_send.id] = "idle"

\* The Director is handing a chunk to an idle Walker while the inbox, the
\* Worker channel and the Collector channel are all full.
C6_Witness ==
    /\ dpc = "send"
    /\ wpc[d_send.id] = "idle"
    /\ Len(inbox) = InboxCap
    /\ Len(wchan) = WorkerChanCap
    /\ Len(cchan) = CollectorChanCap

\* A Walker blocked for good: it is inside consume, sending a full file
\* batch on the Worker channel; the channel is full and every Worker has
\* exited, so nothing is received from it any more, and main still holds a
\* receiver, so the send does not fail either.
WalkerBlockedForGood(i) ==
    /\ wpc[i] = "files"
    /\ is_full(Append(w_pak[i], Head(w_files[i])), FilePakSize)
    /\ Len(wchan) = WorkerChanCap
    /\ WorkersDone

\* C7 as stated: once the flag is set, the Director, every Walker, every
\* Worker and the Collector terminate and the process exits with code 1.  A
\* finite run refutes it by reaching a state where the flag is set and a
\* Walker can never end its run loop, or where the process has exited with
\* another code.
C7_AllActorsTerminate ==
    err =>
        /\ \A i \in WalkerIds : ~WalkerBlockedForGood(i)
        /\ exit_code \in {-1, 1}

\* C7, what holds of the code: once the flag is set, in every fair execution
\* every Worker and the Collector end their run loops and the process exits
\* with code 1, which ends the Director and the Walkers wherever they are.
C7_ExitCodeOne ==
    /\ err ~> (exit_code = 1 /\ WorkersDone /\ cpc = "done")
    /\ [](exit_code # -1 => WorkersDone /\ cpc = "done")

\* C8: the statistics are written to stdout only if the flag is not set: in
\* every state where the flag is set nothing has been written, and nothing
\* is written later.
C8_StdoutOnlyIfNoError ==
    /\ err => rendered = 0
    /\ (cpc = "done" /\ ~err) => rendered = 1

\* The Collector has ended in a run where a Worker set the flag, and wrote
\* nothing.
C8_Witness ==
    /\ cpc = "done"
    /\ err
    /\ set_err_rets.Ok = 1
    /\ rendered = 0

\* C9 as stated: for every failure a Worker met, whether or not the flag was
\* already set, a diagnostic for the file was printed, the flag is set, and
\* no extent of the file was pushed after the failure.
C9_EveryFailureDiagnosed ==
    /\ met \subseteq stderr
    /\ met # {} => err
    /\ late_push = {}

\* What the code guarantees: the failure whose set_err call changed the flag
\* is diagnosed, any other failure ends the Worker silently; the flag is set
\* after any failure and the file's extent loop is abandoned.
C9_FirstFailureDiagnosed ==
    /\ stderr \subseteq met
    /\ Cardinality(stderr) = set_err_rets.Ok
    /\ Cardinality(met) = set_err_rets.Ok + set_err_rets.Err
    /\ met # {} => err
    /\ late_push = {}

\* Two Workers met a failure each; only one diagnostic was printed.
C9_Witness ==
    /\ Cardinality(met) = 2
    /\ Cardinality(stderr) = 1

\* C10: the flag is monotone (once set, get_err returns Err in every later
\* state and no step clears it), and among all calls of set_err exactly one
\* returned Ok: the one that changed the flag.
C10_SetOnce ==
    /\ [][err => (err' /\ get_err(err') = "Err")]_vars
    /\ [](set_err_rets.Ok <= 1)
    /\ [](err <=> set_err_rets.Ok = 1)
    /\ [](set_err_rets.Err > 0 => set_err_rets.Ok = 1)

\* Two calls of set_err were made: one returned Ok, the other Err.
C10_Witness ==
    /\ err
    /\ set_err_rets.Ok = 1
    /\ set_err_rets.Err = 1

\* ---------------------------------------------------------------- C11
\* The devices of the directories given as path arguments.
ArgDevs == {get_dev(d) : d \in Range(args.dirs)}

\* The directory holding a regular file of a tree.
ParentOf(f) == CHOOSE d \in Dirs : f \in Range(FilesOf(d))

\* The messages a Walker has queued for, or sent to, the Director.
PushJobsInFlight ==
    {m \in Range(inbox) \cup UNION {Range(w_out[i]) : i \in WalkerIds} :
        m.kind = "PushJobs"}

\* The files a Walker has emitted: buffered in its TaskPak, on their way to a
\* Worker, or taken by one.
EmittedByWalkers ==
    {f \in Files \ Range(args.files) :
        \/ started[f] > 0
        \/ \E i \in WalkerIds : \E j \in 1..Len(w_pak[i]) : w_pak[i][j].id = f
        \/ \E b \in Range(wchan) \cup flushW \cup {k_files[k] : k \in WorkerIds} :
              \E j \in 1..Len(b) : b[j].id = f}

\* C11: with the one-filesystem flag set, a Walker handling a chunk of
\* device d holds in its deque, and sends to the Director, only directories
\* of device d; the Director's job list holds only directories of the
\* devices of the directory arguments, and every file a Walker emitted lies
\* in a directory of such a device.
C11_OneFsStaysOnDevice ==
    one_fs =>
        /\ \A i \in WalkerIds : \A j \in 1..Len(w_dirs[i]) :
              get_dev(w_dirs[i][j]) = w_chunk[i].dev
        /\ \A i \in WalkerIds : wpc[i] \in {"walk", "open", "files", "send"} =>
              w_chunk[i].dev \in ArgDevs
        /\ \A m \in PushJobsInFlight :
              /\ m.chunk.dev \in ArgDevs
              /\ \A j \in 1..Len(m.chunk.dirs) :
                    get_dev(m.chunk.dirs[j]) = m.chunk.dev
        /\ \A dev \in DOMAIN global_joblist :
              /\ dev \in ArgDevs
              /\ \A j \in 1..Len(global_joblist[dev].dirs) :
                    get_dev(global_joblist[dev].dirs[j]) = dev
        /\ \A f \in EmittedByWalkers : get_dev(ParentOf(f)) \in ArgDevs

\* With the flag set, the crawl of directory 4, which holds the mount point
\* 5, is finished: file 3 under the mount point was never emitted.
C11_Witness ==
    /\ one_fs
    /\ args.dirs = <<4>>
    /\ closed_idle
    /\ cpc = "done"
    /\ started[3] = 0

\* ---------------------------------------------------------------- C12
RECURSIVE Flatten(_)
\* The elements of a sequence of batches, in order.
Flatten(bs) == IF bs = <<>> THEN <<>> ELSE Head(bs) \o Flatten(Tail(bs))

\* The batch of the flush task, as a sequence of zero or one batch.
FlushSeq == IF p_flush = {} THEN <<>> ELSE <<CHOOSE b \in p_flush : TRUE>>

\* C12: every element pushed into a TaskPak is in exactly one place, once
\* and in push order: in a batch received, in a batch in the channel, in the
\* batch of the flush task or in the buffer; batches are sent by a push that
\* filled the buffer (FilePakSize elements) or by the flush task (the
\* residue); once the TaskPak is dropped and the channel drained, the batches
\* received hold exactly the elements pushed.
C12_DeliveredOnce ==
    /\ Flatten(p_recv \o p_chan \o FlushSeq) \o p_inner = p_pushed
    /\ Cardinality(p_flush) <= 1
    /\ \A b \in Range(p_recv \o p_chan \o FlushSeq) : b # <<>>
    /\ \A j \in 1..Len(p_recv \o p_chan) :
          Len((p_recv \o p_chan)[j]) < FilePakSize =>
              /\ ~p_alive
              /\ j = Len(p_recv \o p_chan)
    /\ (~p_alive /\ p_flush = {} /\ p_chan = <<>>) => Flatten(p_recv) = p_pushed

\* A full batch sent by a push and a residue sent by the flush task have
\* both been received.
C12_Witness ==
    /\ ~p_alive
    /\ p_flush = {}
    /\ p_chan = <<>>
    /\ Len(p_recv) = 2
    /\ Len(p_recv[1]) = FilePakSize
    /\ Len(p_recv[2]) < FilePakSize

\* ---------------------------------------------------------------- C13
\* The NFile messages not yet received: held by the task a dropped Worker
\* spawned, or queued in the Collector channel.
NFilePending ==
    Cardinality({m \in flushC : m.msg.kind = "NFile"})
    + Cardinality({j \in 1..Len(cchan) : cchan[j].kind = "NFile"})

\* C13: a Worker sends no NFile message before it is dropped and exactly one
\* when it is, carrying its nfile, the number of files whose processing it
\* started; the Collector's nfile is the sum of the NFile values received
\* (Extent messages do not change it), and when the Collector finishes it is
\* the sum of the Workers' counts.
C13_OneNFilePerWorker ==
    /\ NFilePending + Len(nfile_recv)
          = Cardinality({k \in 0..(jobs - 1) : kpc[k] = "done"})
    /\ \A m \in flushC :
          /\ kpc[m.w] = "done"
          /\ m.msg.kind = "NFile" => m.msg.n = k_nfile[m.w]
    /\ Cardinality({m \in flushC : m.msg.kind = "NFile"})
          = Cardinality({m.w : m \in {x \in flushC : x.msg.kind = "NFile"}})
    /\ stat.nfile = SumSeq(nfile_recv)
    /\ k_nfile[0] + k_nfile[1] = SumTo([f \in Files |-> started[f]], 10)
    /\ cpc = "done" =>
          /\ Len(nfile_recv) = jobs
          /\ stat.nfile = k_nfile[0] + k_nfile[1]

\* The Collector has finished after receiving the NFile messages of two
\* Workers that both started files, and Extent messages.
C13_Witness ==
    /\ cpc = "done"
    /\ jobs = 2
    /\ Len(nfile_recv) = 2
    /\ nfile_recv[1] > 0
    /\ nfile_recv[2] > 0
    /\ stat.nref > 0

\* -------------------------------------------------- claims C14 .. C18
\* The records handle_file has taken from the iterator so far.
Taken == 1..Len(r_res)

IsRegularOrPrealloc(rec) == rec.type \in {1, 2}

\* handle_file stopped at the last record taken with a parse error: the flag
\* is set and the rest of the file is abandoned.
FailedAt(j) ==
    /\ r_res[j] = ItemParseErr
    /\ j = Len(r_res)
    /\ r_err
    /\ r_pc \in {"break", "fail"}

\* C14: a well-formed record with compression byte at most 3 parses to the
\* ExtentInfo the record describes: for a Regular or Prealloc record of
\* length 53 with non-zero 4 KiB-aligned disk_bytenr, that kind and
\* compression, disk_key = disk_bytenr >> 12, disk = disk_num_bytes,
\* uncomp = ram_bytes, refd = num_bytes; for an Inline record of length len,
\* kind Inline, that compression, disk = len - 21, uncomp = refd = ram_bytes.
C14_ParseFields ==
    \A j \in Taken :
        LET rec == r_recs[j]
        IN  rec.compression <= 3 =>
            /\ ( /\ IsRegularOrPrealloc(rec)
                 /\ rec.len = 53
                 /\ rec.disk_bytenr # 0
                 /\ rec.disk_bytenr % 4096 = 0 )
               => r_res[j] =
                    ItemOk([type |-> IF rec.type = 1 THEN "Regular"
                                     ELSE "Prealloc",
                            compression |-> rec.compression,
                            disk_bytenr |-> rec.disk_bytenr \div 4096,
                            stat |-> [disk |-> rec.disk_num_bytes,
                                      uncomp |-> rec.ram_bytes,
                                      refd |-> rec.num_bytes]])
            /\ (rec.type = 0 /\ rec.len >= 21)
               => /\ r_res[j].r = "Ok"
                  /\ r_res[j].e.type = "Inline"
                  /\ r_res[j].e.compression = rec.compression
                  /\ r_res[j].e.stat = [disk |-> rec.len - 21,
                                        uncomp |-> rec.ram_bytes,
                                        refd |-> rec.ram_bytes]

\* A file of an Inline record of 25 bytes and a Regular record at byte
\* address 8192 has been parsed and both extents pushed.
C14_Witness ==
    /\ Len(r_out) = 2
    /\ \E j \in Taken : r_recs[j].type = 0 /\ r_recs[j].len = 25
    /\ \E j \in Taken : r_recs[j].type = 1 /\ r_recs[j].disk_bytenr = 8192
    /\ r_pc = "done"

\* C15: a Regular or Prealloc record of length 53 with disk_bytenr 0 yields
\* neither an ExtentInfo nor an error: nothing is pushed for it, so no counter
\* changes, and handle_file goes on to the next record.
C15_HoleSkipped ==
    /\ \A j \in Taken :
          LET rec == r_recs[j]
          IN  (IsRegularOrPrealloc(rec) /\ rec.len = 53 /\ rec.disk_bytenr = 0)
              => /\ r_res[j] = ItemHole
                 /\ j = Len(r_res) => r_pc \in {"run", "done"}
    /\ Len(r_out) = Cardinality({j \in Taken : r_res[j].r = "Ok"})

\* C16: a Regular or Prealloc record whose disk_bytenr is neither 0 nor a
\* multiple of 4096 yields a parse error with the flag set, never an
\* ExtentInfo; every Regular or Prealloc ExtentInfo pushed has a disk key of
\* at least 1.
C16_MisalignedFails ==
    /\ \A j \in Taken :
          LET rec == r_recs[j]
          IN  ( /\ IsRegularOrPrealloc(rec)
                /\ rec.disk_bytenr # 0
                /\ rec.disk_bytenr % 4096 # 0 )
              => FailedAt(j)
    /\ \A i \in 1..Len(r_out) :
          r_out[i].type \in {"Regular", "Prealloc"} => r_out[i].disk_bytenr >= 1

\* C17: a Regular or Prealloc record whose item length is not 53 yields a
\* parse error (flag set, file abandoned) whatever its disk_bytenr.
C17_LengthChecked ==
    \A j \in Taken :
        LET rec == r_recs[j]
        IN  (IsRegularOrPrealloc(rec) /\ rec.len # 53) => FailedAt(j)

\* C18: a record whose compression byte exceeds 3 or whose type byte exceeds
\* 2 fails its file as an error (flag set, file abandoned), and handle_file
\* never panics.
C18_BadBytesFail ==
    /\ \A j \in Taken :
          LET rec == r_recs[j]
          IN  (rec.compression > 3 \/ rec.type > 2) => FailedAt(j)
    /\ r_pc # "panic"

\* ---------------------------------------------------------------- C19
\* The latest ioctl returned more than 512 records and all were yielded.
ChunkExhausted ==
    /\ i_calls # <<>>
    /\ i_calls[Len(i_calls)].ret > 512
    /\ i_calls[Len(i_calls)].yielded = i_calls[Len(i_calls)].ret

\* C19: an ioctl after the first is issued only when the previous one
\* returned more than 512 records and all of them were yielded, with
\* min_offset one past the offset of the last record yielded and nr_items =
\* u32::MAX; whenever the previous ioctl returned more than 512 records and
\* all were yielded, the next call of next() issues one and does not end; the
\* iterator ends only when the records of an ioctl that returned at most 512
\* are all yielded, and no ioctl follows such an ioctl.
C19_IoctlWhenExhausted ==
    /\ \A k \in 2..Len(i_calls) :
          /\ i_calls[k - 1].ret > 512
          /\ i_calls[k - 1].yielded = i_calls[k - 1].ret
          /\ i_calls[k].min_offset = i_calls[k - 1].last_off + 1
          /\ i_calls[k].nr_items = U32_MAX
    /\ (i_pc = "run" /\ ChunkExhausted)
          => /\ need_ioctl(i_nrest, i_last)
             /\ i_key.min_offset = i_calls[Len(i_calls)].last_off + 1
             /\ i_key.nr_items = U32_MAX
    /\ (i_pc = "run" /\ i_calls # <<>> /\ ~ChunkExhausted)
          => ~need_ioctl(i_nrest, i_last)
    /\ i_pc = "end"
          => /\ i_calls # <<>>
             /\ i_calls[Len(i_calls)].ret \in 0..512
             /\ i_calls[Len(i_calls)].yielded = i_calls[Len(i_calls)].ret

\* The iterator has ended after three ioctls: two that returned 513 records
\* and one that returned 512.
C19_Witness ==
    /\ i_pc = "end"
    /\ Len(i_calls) = 3
    /\ i_calls[1].ret = 513
    /\ i_calls[2].ret = 513
    /\ i_calls[3].ret = 512
    /\ i_calls[3].yielded = 512

\* ---------------------------------------------------------------- C20
\* C20: when the Collector has finished with the flag unset and the total of
\* uncompressed bytes is 0, rendering has not failed, stderr holds `No
\* Files.` if nfile is 0 and `All empty or still-delalloced files.`
\* otherwise, stdout is empty, and the exit code is 0.
C20_EmptyTotals ==
    (f_pc \in {"done", "panic", "exited"} /\ ~f_err /\ Totals(stat).uncomp = 0)
    => /\ f_pc # "panic"
       /\ f_stderr = << IF stat.nfile = 0 THEN "No Files."
                        ELSE "All empty or still-delalloced files." >>
       /\ f_stdout = <<>>
       /\ f_exit \in {-1, 0}

\* ---------------------------------------------------------------- C21
RECURSIVE WalkMet(_, _, _)
\* The directories whose open the crawl attempts in the tree rooted at d: d,
\* and, if d opens, what is met below its entries that are directories (not
\* those of another device when x is set).
WalkMet(d, bad, x) ==
    {d} \cup
    (IF d \in bad.dirs THEN {}
     ELSE UNION {WalkMet(s, bad, x) :
                   s \in {t \in Range(SubDirsOf(d)) :
                            ~x \/ get_dev(t) = get_dev(d)}})

MetDirs == UNION {WalkMet(d, noopen, one_fs) : d \in Range(args.dirs)}

\* The paths of the run whose open fails.
FailedPaths ==
    {<<"dir", d>> : d \in MetDirs \cap noopen.dirs}
    \cup {<<"file", f>> : f \in Range(args.files) \cap noopen.files}

\* The regular files the crawl reaches: the arguments and the entries of the
\* directories met, except what does not open.
ReachedFiles ==
    (Range(args.files) \ noopen.files)
    \cup UNION {Range(FilesOf(d)) : d \in MetDirs \ noopen.dirs}

\* C21: in a run whose only failures are opens that fail, the flag stays
\* unset; when the Collector finishes every failed path has its line on
\* stderr, every other file reached has been counted, and the statistics are
\* rendered; the exit code is 0.
C21_PathFailuresReported ==
    failing = {} =>
        /\ err = FALSE
        /\ exit_code \in {-1, 0}
        /\ cpc = "done" =>
              /\ FailedPaths \subseteq path_diag
              /\ stat.nfile = Cardinality(ReachedFiles)
              /\ rendered = 1

\* ---------------------------------------------------------------- C22
\* C22: the Director inbox, the Worker channel and the Collector channel never
\* hold more messages than their capacity, and a Walker, a flush task or a
\* Worker whose send finds its channel full cannot complete it.
C22_ChannelsBounded ==
    /\ Len(inbox) <= InboxCap
    /\ Len(wchan) <= WorkerChanCap
    /\ Len(cchan) <= CollectorChanCap
    /\ \A i \in WalkerIds :
          /\ (wpc[i] = "send" /\ dpc # "done" /\ Len(inbox) = InboxCap)
                => ~ENABLED WalkerSend(i)
          /\ ( /\ wpc[i] = "files"
               /\ Len(w_pak[i]) + 1 >= FilePakSize
               /\ Len(wchan) = WorkerChanCap )
                => ~ENABLED WalkerConsume(i)
    /\ (flushW # {} /\ Len(wchan) = WorkerChanCap) => ~ENABLED FlushFiles
    /\ (flushC # {} /\ Len(cchan) = CollectorChanCap) => ~ENABLED FlushCollector
    /\ \A k \in WorkerIds :
          ( /\ kpc[k] = "items"
            /\ Head(k_items[k]).r = "Ok"
            /\ Len(k_pak[k]) + 1 >= ExtentPakSize
            /\ Len(cchan) = CollectorChanCap )
          => ~ENABLED WorkerItem(k)

\* The Worker channel and the Collector channel are both full, and a Worker is
\* suspended in a push that would send a batch to the full Collector channel.
C22_Witness ==
    /\ Len(wchan) = WorkerChanCap
    /\ Len(cchan) = CollectorChanCap
    /\ \E k \in WorkerIds :
          /\ kpc[k] = "items"
          /\ Head(k_items[k]).r = "Ok"
          /\ Len(k_pak[k]) + 1 >= ExtentPakSize
          /\ ~ENABLED WorkerItem(k)

\* ---------------------------------------------------------------- C23
\* The PushJobs messages a sequence of WalkDirMsg holds.
PushJobsIn(q) == {j \in 1..Len(q) : q[j].kind = "PushJobs"}

\* No directory is waiting to be explored: the JobMgr is empty, every Walker's
\* deque is empty, and no PushJobs is in the inbox, about to be sent by a
\* Walker, or being handed to a Walker.
NoUnexplored ==
    /\ global_joblist = EmptyJobs
    /\ \A i \in WalkerIds : w_dirs[i] = <<>> /\ PushJobsIn(w_out[i]) = {}
    /\ PushJobsIn(inbox) = {}
    /\ d_send = NoSend

\* C23: in a run whose error flag is unset, once the Director has closed the
\* Walker channels because the JobMgr was empty and every Walker idle, no
\* unexplored directory exists anywhere.
C23_CloseOnlyWhenDone == (closed_idle /\ ~err) => NoUnexplored

\* The Director has closed the channels in a run over the tree of directory 1
\* (an overflow PushJobs and a new-device PushJobs were handled before), the
\* Walkers have not yet noticed.
C23_Witness ==
    /\ closed_idle
    /\ ~err
    /\ NoError
    /\ args.dirs = <<1>>
    /\ ~one_fs
    /\ jobs = 2
    /\ walkers = {}
    /\ \A i \in WalkerIds : wpc[i] = "idle"

\* ---------------------------------------------------------------- C24
\* Whether a sequence of directories holds d: 1 or 0.
Occ(s, d) == IF d \in Range(s) THEN 1 ELSE 0

RECURSIVE SumOcc(_, _, _)
\* How many of the PushJobs among the first n messages of q hold d.
SumOcc(q, n, d) ==
    IF n = 0 THEN 0
    ELSE SumOcc(q, n - 1, d)
         + (IF q[n].kind = "PushJobs" THEN Occ(q[n].chunk.dirs, d) ELSE 0)

RECURSIVE SumFn(_, _)
\* The sum of the function g over the set S.
SumFn(g, S) ==
    IF S = {} THEN 0
    ELSE LET x == CHOOSE y \in S : TRUE IN g[x] + SumFn(g, S \ {x})

\* The owners of directory d: the JobMgr buckets, the messages in flight (to
\* the Director or to a Walker) and the Walkers' deques that hold it.
Owners(d) ==
    SumFn([v \in DOMAIN global_joblist |-> Occ(global_joblist[v].dirs, d)],
          DOMAIN global_joblist)
    + SumOcc(inbox, Len(inbox), d)
    + Occ(d_send.chunk.dirs, d)
    + SumFn([i \in WalkerIds |-> Occ(w_dirs[i], d)
                                  + SumOcc(w_out[i], Len(w_out[i]), d)],
            WalkerIds)

\* The directories the crawl has to enumerate: those of the argument trees
\* that open, not entered through a directory that fails to open nor, with
\* one_fs, through a directory of another device.
RECURSIVE WalkEnum(_)
WalkEnum(d) ==
    IF d \in noopen.dirs THEN {}
    ELSE {d} \cup UNION {WalkEnum(s) :
                            s \in {t \in Range(SubDirsOf(d)) :
                                      ~(one_fs /\ get_dev(t) # get_dev(d))}}
ToEnumerate == UNION {WalkEnum(d) : d \in Range(args.dirs)}

ExtentPending ==
    Cardinality({m \in flushC : m.msg.kind = "Extent"})
    + Cardinality({j \in 1..Len(cchan) : cchan[j].kind = "Extent"})

\* C25: the Collector's recv does not fail (end of stream) while a Worker is
\* alive, a task spawned by a drop still holds its message, or a message is
\* queued; so when the Collector has finished, the NFile of every Worker was
\* received and no Extent batch is left undelivered.
C25_NoEarlyEndOfStream ==
    /\ (cpc = "run" /\ (flushC # {} \/ cchan # <<>>
                        \/ \E k \in WorkerIds : kpc[k] # "done"))
          => ~ENABLED CollectorExit
    /\ cpc = "done" =>
          /\ NFilePending = 0
          /\ ExtentPending = 0
          /\ Len(nfile_recv) = jobs
          /\ \A k \in WorkerIds : kpc[k] = "done" /\ k_pak[k] = <<>>

\* Every Worker is dropped and the Collector's queue is empty, while the tasks
\* spawned by the drops still hold an NFile and a residual Extent batch: the
\* Collector waits.
C25_Witness ==
    /\ Running
    /\ cpc = "run"
    /\ cchan = <<>>
    /\ \A k \in WorkerIds : kpc[k] = "done"
    /\ \E m \in flushC : m.msg.kind = "NFile"
    /\ \E m \in flushC : m.msg.kind = "Extent"
    /\ ~ENABLED CollectorExit

\* ---------------------------------------------------------------- C26
\* Walker i is processing a chunk: between the handoff and the completed send
\* of its RequireJobs.
Processing(i) == wpc[i] \in {"walk", "open", "files", "send"}

\* The places that stand for "Walker i is idle": its id in pending_walkers
\* (counted with repetitions) and its RequireJobs in the inbox.
IdleTokens(i) ==
    Cardinality({j \in 1..Len(pending_walkers) : pending_walkers[j] = i})
    + Cardinality({j \in 1..Len(inbox) : inbox[j] = RequireJobs(i)})

\* The chunk the Director is sending is for Walker i.
Assigned(i) == IF dpc = "send" /\ d_send.id = i THEN 1 ELSE 0

\* C26: for every Walker at most one of these holds: it is processing a
\* chunk, a chunk is being sent to it, its id is in the idle list (once), its
\* RequireJobs is queued.  The Director sends only to an id it takes from the
\* idle list (the id was in the list, or is put there by the RequireJobs
\* being handled), and an id enters the list only by the RequireJobs of that
\* Walker, which has stopped processing.
C26_NoChunkWhileProcessing ==
    /\ [](\A i \in WalkerIds :
             /\ IdleTokens(i) + Assigned(i)
                   + (IF Processing(i) THEN 1 ELSE 0) <= 1
             /\ Assigned(i) = 1 => w_dirs[i] = <<>> /\ w_out[i] = <<>>)
    /\ [][\A i \in WalkerIds :
             /\ (Assigned(i)' = 1 /\ d_send' # d_send)
                   => /\ \/ Occ(pending_walkers, i) = 1
                         \/ /\ dpc = "recv"
                            /\ inbox # <<>>
                            /\ Head(inbox) = RequireJobs(i)
                      /\ Occ(pending_walkers', i) = 0
                      /\ ~Processing(i)
                      /\ ~(Processing(i)')
             /\ Occ(pending_walkers', i) > Occ(pending_walkers, i)
                   => /\ inbox # <<>>
                      /\ Head(inbox) = RequireJobs(i)
                      /\ wpc[i] = "idle"]_vars

\* The Director is handing a second chunk to a Walker that is idle again after
\* its first chunk, while the other Walker is processing.
C26_Witness ==
    /\ dpc = "send"
    /\ \E i \in WalkerIds :
          /\ d_send.id = i
          /\ wpc[i] = "idle"
          /\ w_chunk[i].fd # 0
          /\ Processing(1 - i)

\* ---------------------------------------------------------------- C27
\* C27: when the Director is not inside a handler (it waits for the next
\* message, or has ended), the idle list is empty or the JobMgr is empty.
C27_NoIdleWalkerWithJobs ==
    dpc \in {"recv", "done"} =>
        (pending_walkers = <<>> \/ global_joblist = EmptyJobs)

\* The Director has handled a PushJobs with the flag unset and waits for the
\* next message: directories of two devices wait in the JobMgr and no Walker
\* is idle.
C27_Witness ==
    /\ dpc = "recv"
    /\ ~err
    /\ pending_walkers = <<>>
    /\ Cardinality(DOMAIN global_joblist) = 2
    /\ jobs = 2

\* ---------------------------------------------------------------- C28
\* The most directories a chunk of the Director holds.
ChunkLimit == MAX_LOCAL_LEN \div 2

\* The JobMgr job_balance draws from in the step being taken: the JobMgr
\* after the push of the PushJobs being handled, if one is.
PreJobs ==
    IF dpc = "recv" /\ inbox # <<>> /\ Head(inbox).kind = "PushJobs"
    THEN JobMgr_push(global_joblist, Head(inbox).chunk)
    ELSE global_joblist

\* C28: the chunk the Director is sending holds between 1 and
\* MAX_LOCAL_LEN / 2 directories, all of the chunk's device; every bucket of
\* the JobMgr is non-empty and holds directories of its device only.  The
\* chunk drawn in a step is the head of one bucket: the whole bucket, which
\* is then removed, if it holds at most the limit, else its first
\* MAX_LOCAL_LEN / 2 directories, the bucket keeping the rest; the other
\* buckets are left as they are.
C28_ChunkOfOneBucket ==
    /\ [](/\ dpc = "send" =>
                /\ Len(d_send.chunk.dirs) >= 1
                /\ Len(d_send.chunk.dirs) <= ChunkLimit
                /\ \A d \in Range(d_send.chunk.dirs) :
                      get_dev(d) = d_send.chunk.dev
          /\ \A v \in DOMAIN global_joblist :
                /\ global_joblist[v].dirs # <<>>
                /\ \A d \in Range(global_joblist[v].dirs) : get_dev(d) = v)
    /\ [][(dpc' = "send"
            /\ <<d_send, global_joblist, pending_walkers>>'
                  # <<d_send, global_joblist, pending_walkers>>)
           => LET c == d_send'.chunk
              IN  /\ c.dev \in DOMAIN PreJobs
                  /\ LET b == PreJobs[c.dev].dirs
                     IN  IF Len(b) <= ChunkLimit
                         THEN /\ c.dirs = b
                              /\ c.dev \notin DOMAIN global_joblist'
                         ELSE /\ c.dirs = SubSeq(b, 1, ChunkLimit)
                              /\ c.dev \in DOMAIN global_joblist'
                              /\ global_joblist'[c.dev].dirs
                                    = SubSeq(b, ChunkLimit + 1, Len(b))
                  /\ \A v \in DOMAIN PreJobs \ {c.dev} :
                        /\ v \in DOMAIN global_joblist'
                        /\ global_joblist'[v] = PreJobs[v]]_vars

\* The Director is sending a chunk of MAX_LOCAL_LEN / 2 directories drawn from
\* a bucket that held more and keeps the rest, in the run over the tree of
\* directory 1.
C28_Witness ==
    /\ dpc = "send"
    /\ args.dirs = <<1>>
    /\ Len(d_send.chunk.dirs) = ChunkLimit
    /\ d_send.chunk.dev \in DOMAIN global_joblist
    /\ get_dev(global_joblist[d_send.chunk.dev].dirs[1]) = d_send.chunk.dev

\* ---------------------------------------------------------------- C29
\* Walker i finishes a directory in the step being taken: it consumes the
\* last regular file of the directory, or opens a directory that holds none.
FinishesDir(i) ==
    \/ wpc[i] = "files" /\ wpc'[i] # "files"
    \/ /\ wpc[i] = "open"
       /\ wpc'[i] # "files"
       /\ w_dirs[i] # <<>>
       /\ enumerated' # enumerated
       /\ <<w_dirs[i], w_out[i], wpc[i]>>' # <<w_dirs[i], w_out[i], wpc[i]>>

\* The deque of Walker i when it finishes the directory: what was left after
\* the pop, followed by the directories of the chunk's device found.
EndDeque(i) ==
    IF wpc[i] = "files" THEN w_dirs[i]
    ELSE LET n == Len(w_dirs[i])
         IN  SubSeq(w_dirs[i], 1, n - 1)
             \o SelectSeq(SubDirsOf(w_dirs[i][n]),
                          LAMBDA s : get_dev(s) = w_chunk[i].dev)

\* The PushJobs of the chunk's device among the messages Walker i has to send.
OwnDevPush(i, out) ==
    {j \in 1..Len(out) : /\ out[j].kind = "PushJobs"
                         /\ out[j].chunk.dev = w_chunk[i].dev}

\* C29: at the top of its loop, and while it sends, a Walker's deque holds at
\* most MAX_LOCAL_LEN directories.  When a Walker finishes a directory with
\* more than MAX_LOCAL_LEN directories in the deque it keeps the newest
\* MAX_LOCAL_LEN / 2 and queues one PushJobs of the chunk's device and fd
\* holding all the older ones, in order; otherwise the deque is kept whole and
\* no PushJobs of the chunk's device is queued.
C29_OverflowPushed ==
    /\ [](\A i \in WalkerIds :
             wpc[i] \in {"walk", "send", "idle"} =>
                 Len(w_dirs[i]) <= MAX_LOCAL_LEN)
    /\ [][\A i \in WalkerIds :
             FinishesDir(i) =>
                 LET e == EndDeque(i)
                     keep == MAX_LOCAL_LEN \div 2
                     own == OwnDevPush(i, w_out'[i])
                 IN  IF Len(e) > MAX_LOCAL_LEN
                     THEN /\ w_dirs'[i] = SubSeq(e, Len(e) - keep + 1, Len(e))
                          /\ Cardinality(own) = 1
                          /\ \A j \in own :
                                /\ w_out'[i][j].chunk.dirs
                                      = SubSeq(e, 1, Len(e) - keep)
                                /\ w_out'[i][j].chunk.fd = w_chunk[i].fd
                     ELSE /\ w_dirs'[i] = e
                          /\ own = {}]_vars

\* A Walker that finished a directory with more than MAX_LOCAL_LEN
\* directories in its deque is about to send the PushJobs of the older ones
\* and keeps MAX_LOCAL_LEN / 2.
C29_Witness ==
    \E i \in WalkerIds :
        /\ wpc[i] = "send"
        /\ w_out[i] # <<>>
        /\ Head(w_out[i]).kind = "PushJobs"
        /\ Head(w_out[i]).chunk.dev = w_chunk[i].dev
        /\ Len(Head(w_out[i]).chunk.dirs) + Len(w_dirs[i]) > MAX_LOCAL_LEN
        /\ Len(w_dirs[i]) = MAX_LOCAL_LEN \div 2

\* ---------------------------------------------------------------- C30
\* C30: a Worker starts at most one file while the flag is set, and a Walker
\* opens at most one directory while the flag is set: the one whose flag
\* check was passed before the flag was set.  A Worker that reaches the flag
\* check with the flag set starts no file and counts none: it ends, leaving
\* the rest of its batch; a Walker that reaches the check with the flag set
\* opens no directory: it leaves its loop and drops its deque.
C30_AtMostOneAfterFlag ==
    /\ [](\A k \in WorkerIds : late_start[k] <= 1)
    /\ [](\A i \in WalkerIds : late_open[i] <= 1)
    /\ [][\A k \in WorkerIds :
             (err /\ kpc[k] = "files") =>
                 /\ kpc'[k] \in {"files", "done"}
                 /\ k_nfile'[k] = k_nfile[k]
                 /\ late_start'[k] = late_start[k]]_vars
    /\ [][\A i \in WalkerIds :
             (err /\ wpc[i] = "walk") =>
                 /\ wpc'[i] \in {"walk", "send"}
                 /\ wpc'[i] = "send" => w_dirs'[i] = <<>>
                 /\ late_open'[i] = late_open[i]]_vars

\* The flag was set between a Worker's check and its start of a file, and
\* between a Walker's check and its open of a directory: each went on with
\* that one; the Worker has since ended leaving a file of its batch unstarted.
C30_Witness ==
    /\ err
    /\ \E k \in WorkerIds : late_start[k] = 1 /\ kpc[k] = "done"
    /\ \E i \in WalkerIds : late_open[i] = 1
    /\ \E f \in Files : started[f] = 0 /\ f \in AllFiles(args)

\* ---------------------------------------------------------------- C31
\* The Director takes a message from its inbox in the step being taken.
DirectorTakes == dpc = "recv" /\ inbox # <<>> /\ inbox' = Tail(inbox)

\* The Director has handled a message with the flag set and waits for the
\* next one.
ErrCleaned == err /\ dpc = "recv" /\ walkers = {} /\ ~closed_idle

\* C31: a message the Director takes while the flag is set is dropped: the
\* JobMgr and the idle list are emptied (whatever the message was), every
\* Walker channel sender is dropped and no send is started; and once that has
\* happened the Director never sends a chunk again and holds no job, no idle
\* id and no sender.
C31_ErrorCleanup ==
    /\ [][(DirectorTakes /\ err) =>
             /\ global_joblist' = EmptyJobs
             /\ pending_walkers' = <<>>
             /\ walkers' = {}
             /\ dpc' = "recv"
             /\ d_send' = NoSend
             /\ ErrCleaned']_vars
    /\ [][ErrCleaned =>
             /\ dpc' \in {"recv", "done"}
             /\ d_send' = NoSend
             /\ global_joblist' = EmptyJobs
             /\ pending_walkers' = <<>>
             /\ walkers' = {}
             /\ w_chunk' = w_chunk]_vars

\* The Director has dropped a message with the flag set while a Walker is
\* still inside a directory.
C31_Witness ==
    /\ ErrCleaned
    /\ \E i \in WalkerIds : wpc[i] \in {"open", "files"}

\* ---------------------------------------------------------------- C32
RECURSIVE YieldedUpTo(_)
\* The number of records yielded by the first k ioctls.
YieldedUpTo(k) == IF k = 0 THEN 0 ELSE YieldedUpTo(k - 1) + i_calls[k].yielded

\* No ioctl has failed and handle_file has not left its loop.
IterUndisturbed == i_pc \in {"run", "end"}

\* C32: while no ioctl fails and the loop is not left, the records yielded
\* so far are the first records of the file, each once and in offset order:
\* every ioctl returns from the first record not yet yielded on (none is
\* skipped, none comes again), the records of an ioctl are yielded in order
\* up to the last one yielded, whose offset is recorded; min_offset strictly
\* increases from one ioctl to the next; an ioctl that is not the latest
\* returned more than 512 records, so a file of n records takes at most
\* n / 513 + 1 ioctls; when the iterator has ended, every record of the file
\* was yielded.
C32_EveryRecordOnce ==
    IterUndisturbed =>
        /\ \A k \in 1..Len(i_calls) :
              /\ i_calls[k].first = YieldedUpTo(k - 1)
              /\ i_calls[k].yielded <= i_calls[k].ret
              /\ i_calls[k].yielded > 0 =>
                     i_calls[k].last_off
                        = OffsetOf(i_file, i_calls[k].first + i_calls[k].yielded - 1)
              /\ k > 1 =>
                     /\ i_calls[k].min_offset > i_calls[k - 1].min_offset
                     /\ i_calls[k - 1].yielded = i_calls[k - 1].ret
                     /\ i_calls[k - 1].ret > LastThreshold
        /\ YieldedUpTo(Len(i_calls)) <= i_file.n
        /\ Len(i_calls) <= i_file.n \div (LastThreshold + 1) + 1
        /\ i_pc = "end" => YieldedUpTo(Len(i_calls)) = i_file.n

\* The iterator has ended on a file of 1026 records at offsets 0, 2, 4, ...
\* after three ioctls: two that returned 513 records and one that returned
\* none.
C32_Witness ==
    /\ i_pc = "end"
    /\ i_file = [n |-> 1026, gap |-> 2]
    /\ Len(i_calls) = 3
    /\ i_calls[3].ret = 0
    /\ i_calls[3].min_offset = 2051
    /\ YieldedUpTo(3) = 1026

\* --------------------------------------------------------------------
\* C33: the first ioctl of every file a Worker processes is issued with
\* min_objectid = max_objectid = the inode of the file, min_offset = 0 and
\* nr_items = u32::MAX, and with tree_id, max_offset, the transid range and
\* the type range at the values the Worker was built with, whatever the key
\* held when the file before was left.
\* --------------------------------------------------------------------
ConfiguredKey(ino) ==
    [tree_id |-> 0, min_objectid |-> ino, max_objectid |-> ino,
     min_offset |-> 0, max_offset |-> U64 - 1,
     min_transid |-> 0, max_transid |-> U64 - 1,
     min_type |-> EXTENT_DATA, max_type |-> EXTENT_DATA,
     nr_items |-> U32_MAX]

C33_FirstIoctlKey ==
    (i_pc # "idle" /\ i_calls # <<>>) => i_calls[1].key = ConfiguredKey(i_ino)

\* The second file of a batch has issued its first ioctl; the file before,
\* of another inode, was paginated and left min_offset and nr_items changed.
C33_Witness ==
    /\ i_nfile = 2
    /\ i_calls # <<>>
    /\ i_left.min_objectid # i_ino
    /\ i_left.min_offset > 0
    /\ i_left.nr_items # U32_MAX
    /\ i_calls[1].ret > 0

\* --------------------------------------------------------------------
\* C34: every file handle a Walker has emitted carries a directory handle
\* opened on a directory of the device of the file's parent directory, the
\* handle of the chunk the Walker was processing; the handle of every chunk
\* (in a bucket of the JobMgr, in a PushJobs, being sent to a Walker or
\* being processed) was opened on a directory of the chunk's device, and so
\* were the chunk's directories.
\* --------------------------------------------------------------------
\* The file handles held by the batchers, the Worker channel, the flush
\* tasks and the batches of the Workers; those of the path arguments carry
\* no directory handle (fd = 0).
HandlesOfBatches(S) == UNION {Range(b) : b \in S}

FileHandles ==
    HandlesOfBatches({w_pak[i] : i \in WalkerIds})
    \cup HandlesOfBatches(Range(wchan))
    \cup HandlesOfBatches(flushW)
    \cup HandlesOfBatches({k_files[k] : k \in WorkerIds})

\* The chunks of the run: buckets, messages and the chunks being processed.
ChunksAlive ==
    {[dev |-> d, fd |-> global_joblist[d].fd, dirs |-> global_joblist[d].dirs] :
        d \in DOMAIN global_joblist}
    \cup {m.chunk : m \in PushJobsInFlight}
    \cup (IF dpc = "send" THEN {d_send.chunk} ELSE {})
    \cup {[dev |-> w_chunk[i].dev, fd |-> w_chunk[i].fd, dirs |-> w_dirs[i]] :
            i \in {j \in WalkerIds : wpc[j] \in {"walk", "open", "files"}}}

C34_HandleOfDevice ==
    /\ [](/\ \A h \in FileHandles :
                h.fd # 0 => get_dev(h.fd) = get_dev(ParentOf(h.id))
          /\ \A c \in ChunksAlive :
                /\ c.fd \in Dirs
                /\ get_dev(c.fd) = c.dev
                /\ \A d \in Range(c.dirs) : get_dev(d) = c.dev)
    /\ [][\A i \in WalkerIds :
             \A h \in Range(w_pak'[i]) \ FileHandles :
                 h.fd = w_chunk[i].fd /\ wpc[i] = "files"]_vars

\* A Worker holds the handle of file 3 of directory 5, on the second device,
\* with the handle of directory 5, while another handle, of file 2, carries
\* the handle of directory 1, which is not the file's parent but is on its
\* device.
C34_Witness ==
    /\ \E h \in FileHandles : h.id = 3 /\ h.fd = 5
    /\ \E h \in FileHandles : h.id = 2 /\ h.fd = 1

\* --------------------------------------------------------------------
\* C35: inserting the extents in any other order gives the same ninline,
\* nref and nextent and the same refd in each of the four compression
\* buckets and in the prealloc bucket; when the Regular/Prealloc elements
\* that share a disk key agree on kind, compression, disk and uncomp, it
\* gives the same CompsizeStat in every field.
\* --------------------------------------------------------------------
SameCountsAndRefd(a, b) ==
    /\ a.ninline = b.ninline
    /\ a.nref = b.nref
    /\ a.nextent = b.nextent
    /\ a.prealloc.refd = b.prealloc.refd
    /\ \A c \in Compressions : a.stat[c].refd = b.stat[c].refd

C35_OrderIndependent ==
    \A p \in Perms(Len(inserted)) :
        LET a == Aggregate(Permute(inserted, p))
        IN  /\ SameCountsAndRefd(a, stat)
            /\ KeyConsistent(inserted) => a = [stat EXCEPT !.nfile = 0]

\* Three extents were inserted, two of one disk key that differ in kind and
\* in refd, and another order of them gives other disk bytes in a bucket.
C35_Witness ==
    /\ Len(inserted) = 3
    /\ ~KeyConsistent(inserted)
    /\ \E i, j \in 1..3 :
          /\ inserted[i].type = "Regular"
          /\ inserted[j].type = "Prealloc"
          /\ inserted[i].disk_bytenr = inserted[j].disk_bytenr
          /\ inserted[i].stat.refd # inserted[j].stat.refd
    /\ \E p \in Perms(3) :
          Aggregate(Permute(inserted, p)).prealloc.disk # stat.prealloc.disk

\* --------------------------------------------------------------------
\* C36: what the extents of one batch leave alone.  A Prealloc extent
\* changes no per-compression bucket and not ninline; a Regular extent
\* changes, of the buckets, only that of its compression, and not ninline;
\* an Inline extent changes only ninline and the bucket of its compression,
\* not the seen set, nref, nextent or the prealloc bucket; none changes
\* nfile.  For a batch: a compression bucket changes only if the batch holds
\* an Inline or Regular extent of that compression, the prealloc bucket only
\* if it holds a Prealloc extent, ninline only if it holds an Inline extent,
\* and nref, nextent and the seen set only if it holds a Regular or Prealloc
\* extent.
\* --------------------------------------------------------------------
BatchInserted == SubSeq(inserted', Len(inserted) + 1, Len(inserted'))

C36_InsertFrame ==
    [][inserted' # inserted =>
         LET new == Range(BatchInserted)
         IN  /\ stat'.nfile = stat.nfile
             /\ \A c \in Compressions :
                   (\A e \in new : e.type = "Prealloc" \/ e.compression # c)
                   => stat'.stat[c] = stat.stat[c]
             /\ (\A e \in new : e.type # "Prealloc")
                   => stat'.prealloc = stat.prealloc
             /\ (\A e \in new : e.type # "Inline")
                   => stat'.ninline = stat.ninline
             /\ (\A e \in new : e.type = "Inline")
                   => /\ extent_map' = extent_map
                      /\ stat'.nref = stat.nref
                      /\ stat'.nextent = stat.nextent]_vars

\* An extent of each kind was inserted, the Prealloc one of the compression
\* class of a Regular one, and every counter and the buckets they touch are
\* non-zero.
C36_Witness ==
    /\ Len(inserted) = 3
    /\ inserted[1].type = "Regular" /\ inserted[1].compression = 0
    /\ inserted[2].type = "Inline"
    /\ inserted[3].type = "Prealloc" /\ inserted[3].compression = 0
    /\ inserted[3].disk_bytenr # inserted[1].disk_bytenr
    /\ stat.prealloc.disk > 0
    /\ stat.stat[0].disk = inserted[1].stat.disk
    /\ stat.ninline = 1

\* --------------------------------------------------------------------
\* C37: the pipeline is never started with a worker count of 0: when the
\* command line holds `-j 0`, no Walker, Worker or executor thread is ever
\* created, main does not reach block_on, and the process ends with exit
\* code 1.
\* --------------------------------------------------------------------
HasJobsZero ==
    \E k \in 1..Len(o_argv.opts) : o_argv.opts[k] = [id |-> "j", value |-> "0"]

NothingMade == o_made = [walkers |-> 0, workers |-> 0, threads |-> 0]

\* The part of C37 that holds: nothing is created while jobs is 0.
NeverStartedWithZero == (o_pc # "idle" /\ o_cfg.jobs = 0) => NothingMade

C37_JobsZeroExitsOne ==
    (o_pc # "idle" /\ HasJobsZero)
    => /\ NothingMade
       /\ o_pc # "block_on"
       /\ o_pc = "exited" => o_exit = 1

\* --------------------------------------------------------------------
\* C38: with jobs = 1 the executor has no worker thread and the main thread
\* in block_on runs every spawned task, interleaved with the Collector:
\* the main thread is never parked without its token while a Runnable is
\* queued or the Collector's channel holds a message or is closed, and
\* every run ends with block_on returned, every task ended and every
\* message handled by the Collector.
\* --------------------------------------------------------------------
ExecSent ==
    SumSeq([k \in 1..Len(x_tasks) |-> x_tasks[k].left])

ExecAllDone ==
    /\ x_mpc = "done"
    /\ \A k \in 1..Len(x_tasks) : x_tasks[k].pc = "done" /\ x_tasks[k].left = 0
    /\ x_chan = 0
    /\ x_queue = <<>>

PutNeverInSent == s_hit # "put_msg"

\* C39: in every interleaving of one send and any number of polls of the
\* Receiver, neither unreachable! branch is executed: put_msg never runs in
\* state Sent and get_msg never runs in state ReceiverWaiting.
C39_NoUnreachable == s_hit = "none"

\* ---------------------------------------------------------------- claim C40
ActStrong == strong_count(a_own, a_kept, a_ext)

\* No Addr of the actors remains: none is held outside, no actor keeps one,
\* and every run_actor is past on_start.
NoAddrRemains ==
    /\ a_pc # <<>>
    /\ a_ext = 0
    /\ \A i \in Actors : a_kept[i] = 0 /\ a_pc[i] # "start"

ActAllExited ==
    /\ a_pc # <<>>
    /\ \A i \in Actors : a_pc[i] = "done" /\ a_exits[i] = 1

\* C40: an actor leaves its receive loop only when no Addr is left and the
\* queue is drained, and then runs on_exit once; every message sent is handled
\* once; and, the Context holding only a Weak, once no Addr remains every
\* actor runs on_exit although its Context is still in use.
C40_ActorLifetime ==
    /\ [](\A i \in Actors :
            /\ a_exits[i] = (IF a_pc[i] = "done" THEN 1 ELSE 0)
            /\ a_pc[i] \in {"exit", "done"} =>
                  /\ ActStrong = 0
                  /\ a_queue = <<>>
                  /\ a_sent = Len(a_handled)
                               + Cardinality({j \in Actors : a_cur[j] # 0}))
    /\ [](\A k \in 1..a_sent :
            Cardinality({j \in 1..Len(a_handled) : a_handled[j].msg = k})
              = (IF k \in Range(a_queue) \/ k \in Range(a_cur) THEN 0 ELSE 1))
    /\ (NoAddrRemains ~> ActAllExited)

\* Two actors of one run_n_actor have each handled a message and run
\* on_exit, and one of them asked its Context for an Addr when none was left.
C40_Witness ==
    /\ ActAllExited
    /\ Len(a_pc) = 2
    /\ Len(a_handled) = MaxActMsgs
    /\ \A i \in Actors : \E j \in 1..Len(a_handled) : a_handled[j].actor = i
    /\ a_none

====
